---- MODULE Spec2Model ----
(***************************************************************************)
(* Model of the piece-tree differ (src/model/piece_tree_diff.rs), of the   *)
(* view-coordinate navigation and mapping functions (src/navigation/),     *)
(* of Selection (src/selection.rs), of the goto-line prompt handler        *)
(* (src/editor/input.rs) and of the file-open dialog state                 *)
(* (src/app/file_open.rs).  Each is a state machine of its own over its    *)
(* own variables, with its own specification.                              *)
(*                                                                         *)
(* Option<T> is modelled as a set with at most one element: None is {},    *)
(* Some(x) is {x}.  A Range<usize> a..b is the record [start |-> a,        *)
(* end |-> b].  Rust slices are 0-based, TLA+ sequences are 1-based.       *)
(* Every usize / isize value of the model is far below the integer limits, *)
(* so the casts and additions of the source are exact.                     *)
(***************************************************************************)
EXTENDS Integers, Sequences, FiniteSets, TLC

VARIABLES
    before,     \* the "before" piece tree root handed to diff_piece_trees
    after,      \* the "after" piece tree root handed to diff_piece_trees
    diff,       \* Option<PieceTreeDiff>: the result of the last diff, None before the first
    locals,     \* Option<[prefix, suffix]>: prefix / suffix of the last diff (None on the fast path)
    edit,       \* Option<[i, j, k]>: the byte edit that produced `after`, None otherwise
    layout,     \* the Layout the navigation functions work on
    viewport,   \* the Viewport
    cursor,     \* the current ViewPosition
    prev,       \* the ViewPosition the last navigation call was given
    call,       \* the last navigation call: [op, preferred_col, direction]
    prev_viewport,  \* Option<Viewport>: the viewport scroll_view was last given, None before
    resolved,   \* Option<usize> or Option<Range>: what the last mapping call returned
    selection,  \* the current Selection
    sel_given,  \* Option<Selection>: the selection normalized() was last called on
    editor,     \* the Editor state handle_goto_line reads and writes
    goto_call,  \* Option<[input, before, returned]>: the handle_goto_line call of the last step
    file_open,  \* Option<FileOpenState>: the editor's file_open_state
    file_editor,    \* the editor beside the dialog: [prompt, status_message]
    file_call   \* the last FileOpenState call when made at an edge of the list: [op, selected_index before it]

vars == <<before, after, diff, locals, edit, layout, viewport, cursor, prev, call,
          prev_viewport, resolved, selection, sel_given,
          editor, goto_call, file_open, file_editor, file_call>>
diffVars == <<before, after, diff, locals, edit>>
navVars == <<layout, viewport, cursor, prev, call, prev_viewport, resolved>>
selVars == <<selection, sel_given>>
gotoVars == <<editor, goto_call>>
fileVars == <<file_open, file_editor, file_call>>
uiVars == <<selVars, gotoVars, fileVars>>

(***************************************************************************)
(* Option and Range helpers.                                               *)
(***************************************************************************)
None == {}
Some(x) == {x}
Unwrap(o) == CHOOSE x \in o : TRUE
Range(a, b) == [start |-> a, end |-> b]

Min(a, b) == IF a <= b THEN a ELSE b
Max(a, b) == IF a >= b THEN a ELSE b

(***************************************************************************)
(* Bounds of the model.                                                    *)
(***************************************************************************)
MaxLeaves == 3

(***************************************************************************)
(* Piece tree data: LeafData, PieceTreeNode.                               *)
(***************************************************************************)
Stored0 == "Stored(0)"
Added1 == "Added(1)"

LeafData(location, offset, bytes, line_feed_cnt) ==
    [location |-> location, offset |-> offset, bytes |-> bytes,
     line_feed_cnt |-> line_feed_cnt]

LeafNode(l) ==
    [kind |-> "Leaf", location |-> l.location, offset |-> l.offset,
     bytes |-> l.bytes, line_feed_cnt |-> l.line_feed_cnt]

InternalNode(left_bytes, lf_left, left, right) ==
    [kind |-> "Internal", left_bytes |-> left_bytes, lf_left |-> lf_left,
     left |-> left, right |-> right]

\* The leaves the model draws trees from: two leaves that differ only in location,
\* two that differ only in line_feed_cnt (one of them unknown), and a two-byte leaf
\* holding a newline, which an edit can split.
LeafPool ==
    { LeafData(Stored0, 0, 1, Some(0)),
      LeafData(Stored0, 0, 1, None),
      LeafData(Stored0, 1, 2, Some(1)),
      LeafData(Added1, 0, 1, Some(0)) }

RECURSIVE SeqsUpTo(_, _)
SeqsUpTo(S, n) ==
    IF n = 0 THEN { <<>> }
    ELSE LET shorter == SeqsUpTo(S, n - 1)
         IN shorter \cup { Append(s, x) : s \in { t \in shorter : Len(t) = n - 1 }, x \in S }

Slice(s, from, to) == SubSeq(s, from + 1, to)

(***************************************************************************)
(* sum_bytes, sum_line_feeds, lines_in_slice.                              *)
(***************************************************************************)
RECURSIVE sum_bytes(_)
sum_bytes(leaves) ==
    IF leaves = <<>> THEN 0
    ELSE Head(leaves).bytes + sum_bytes(Tail(leaves))

RECURSIVE sum_line_feeds_from(_, _)
sum_line_feeds_from(leaves, total) ==
    IF leaves = <<>> THEN Some(total)
    ELSE IF Head(leaves).line_feed_cnt = None THEN None
    ELSE sum_line_feeds_from(Tail(leaves), total + Unwrap(Head(leaves).line_feed_cnt))

RECURSIVE sum_line_feeds_unknown_as_zero(_)
sum_line_feeds_unknown_as_zero(leaves) ==
    IF leaves = <<>> THEN Some(0)
    ELSE LET rest == Unwrap(sum_line_feeds_unknown_as_zero(Tail(leaves)))
             here == IF Head(leaves).line_feed_cnt = None THEN 0
                     ELSE Unwrap(Head(leaves).line_feed_cnt)
         IN Some(here + rest)

sum_line_feeds(leaves) == sum_line_feeds_from(leaves, 0)

lines_in_slice_no_plus_one(leaves) ==
    IF leaves = <<>> THEN Some(0)
    ELSE sum_line_feeds(leaves)

lines_in_slice(leaves) ==
    IF leaves = <<>> THEN Some(0)
    ELSE LET line_feeds == sum_line_feeds(leaves)
         IN IF line_feeds = None THEN None
            ELSE Some(Unwrap(line_feeds) + 1)

(***************************************************************************)
(* tests::build: the balanced tree over a leaf list.                       *)
(***************************************************************************)
RECURSIVE build(_)
build(leaves) ==
    IF leaves = <<>> THEN LeafNode(LeafData(Stored0, 0, 0, Some(0)))
    ELSE IF Len(leaves) = 1 THEN LeafNode(leaves[1])
    ELSE LET mid == Len(leaves) \div 2
         IN InternalNode(sum_bytes(Slice(leaves, 0, mid)),
                         sum_line_feeds(Slice(leaves, 0, mid)),
                         build(Slice(leaves, 0, mid)),
                         build(Slice(leaves, mid, Len(leaves))))

(***************************************************************************)
(* collect_leaves, leaves_equal, leaf_slices_equal.                        *)
(***************************************************************************)
RECURSIVE collect_leaves(_)
collect_leaves(node) ==
    IF node.kind = "Internal"
    THEN collect_leaves(node.left) \o collect_leaves(node.right)
    ELSE << LeafData(node.location, node.offset, node.bytes, node.line_feed_cnt) >>

leaves_equal_ignoring_location(a, b) ==
    a.offset = b.offset /\ a.bytes = b.bytes

leaves_equal_comparing_line_feeds(a, b) ==
    /\ a.location = b.location /\ a.offset = b.offset /\ a.bytes = b.bytes
    /\ a.line_feed_cnt = b.line_feed_cnt

leaves_equal(a, b) ==
    a.location = b.location /\ a.offset = b.offset /\ a.bytes = b.bytes

leaf_slices_equal(a, b) ==
    /\ Len(a) = Len(b)
    /\ \A i \in 1..Len(a) : leaves_equal(a[i], b[i])

(***************************************************************************)
(* diff_piece_trees: the two while loops, then the whole function.         *)
(***************************************************************************)
RECURSIVE common_prefix_from(_, _, _)
common_prefix_from(before_leaves, after_leaves, prefix) ==
    IF /\ prefix < Len(before_leaves)
       /\ prefix < Len(after_leaves)
       /\ leaves_equal(before_leaves[prefix + 1], after_leaves[prefix + 1])
    THEN common_prefix_from(before_leaves, after_leaves, prefix + 1)
    ELSE prefix

common_prefix(before_leaves, after_leaves) ==
    common_prefix_from(before_leaves, after_leaves, 0)

RECURSIVE common_suffix_from(_, _, _, _)
common_suffix_from(before_leaves, after_leaves, prefix, suffix) ==
    IF /\ suffix + prefix < Len(before_leaves)
       /\ suffix + prefix < Len(after_leaves)
       /\ leaves_equal(before_leaves[Len(before_leaves) - 1 - suffix + 1],
                       after_leaves[Len(after_leaves) - 1 - suffix + 1])
    THEN common_suffix_from(before_leaves, after_leaves, prefix, suffix + 1)
    ELSE suffix

\* The suffix loop without its prefix + suffix bound.
common_suffix_ignoring_prefix(before_leaves, after_leaves, prefix) ==
    common_suffix_from(before_leaves, after_leaves, 0, 0)

common_suffix(before_leaves, after_leaves, prefix) ==
    common_suffix_from(before_leaves, after_leaves, prefix, 0)

PieceTreeDiff(equal, byte_range, line_range) ==
    [equal |-> equal, byte_range |-> byte_range, line_range |-> line_range]

\* diff_slow_path with the forced one-line anchor of a pure deletion left out.
diff_slow_path_without_deletion_anchor(before_leaves, after_leaves) ==
    LET prefix == common_prefix(before_leaves, after_leaves)
        suffix == common_suffix(before_leaves, after_leaves, prefix)
        after_changed == Slice(after_leaves, prefix, Len(after_leaves) - suffix)
        start_byte == sum_bytes(Slice(after_leaves, 0, prefix))
        end_byte == start_byte + sum_bytes(after_changed)
        lines_before == sum_line_feeds(Slice(after_leaves, 0, prefix))
        lines_in_changed == lines_in_slice(after_changed)
        line_range ==
            IF lines_before = None THEN None
            ELSE IF lines_in_changed = None THEN None
            ELSE Some(Range(Unwrap(lines_before),
                            Unwrap(lines_before) + Unwrap(lines_in_changed)))
    IN PieceTreeDiff(FALSE, Range(start_byte, end_byte), line_range)

\* diff_slow_path with the changed span measured in the before tree.
diff_slow_path_measured_in_before(before_leaves, after_leaves) ==
    LET prefix == common_prefix(before_leaves, after_leaves)
        suffix == common_suffix(before_leaves, after_leaves, prefix)
        after_changed == Slice(after_leaves, prefix, Len(after_leaves) - suffix)
        before_changed == Slice(before_leaves, prefix, Len(before_leaves) - suffix)
        start_byte == sum_bytes(Slice(before_leaves, 0, prefix))
        end_byte == start_byte + sum_bytes(before_changed)
        lines_before == sum_line_feeds(Slice(after_leaves, 0, prefix))
        lines_in_changed == IF after_changed = <<>> THEN Some(1)
                            ELSE lines_in_slice(after_changed)
        line_range ==
            IF lines_before = None THEN None
            ELSE IF lines_in_changed = None THEN None
            ELSE Some(Range(Unwrap(lines_before),
                            Unwrap(lines_before) + Unwrap(lines_in_changed)))
    IN PieceTreeDiff(FALSE, Range(start_byte, end_byte), line_range)

\* The part of diff_piece_trees after the fast path.
diff_slow_path(before_leaves, after_leaves) ==
    LET prefix == common_prefix(before_leaves, after_leaves)
        suffix == common_suffix(before_leaves, after_leaves, prefix)
        after_changed == Slice(after_leaves, prefix, Len(after_leaves) - suffix)
        start_byte == sum_bytes(Slice(after_leaves, 0, prefix))
        end_byte == start_byte + sum_bytes(after_changed)
        lines_before == sum_line_feeds(Slice(after_leaves, 0, prefix))
        lines_in_changed == IF after_changed = <<>> THEN Some(1)
                            ELSE lines_in_slice(after_changed)
        line_range ==
            IF lines_before = None THEN None
            ELSE IF lines_in_changed = None THEN None
            ELSE Some(Range(Unwrap(lines_before),
                            Unwrap(lines_before) + Unwrap(lines_in_changed)))
    IN PieceTreeDiff(FALSE, Range(start_byte, end_byte), line_range)

diff_piece_trees_without_fast_path(before_root, after_root) ==
    diff_slow_path(collect_leaves(before_root), collect_leaves(after_root))

\* diff_piece_trees with a fast path that compares the two roots, not their leaves.
diff_piece_trees_comparing_roots(before_root, after_root) ==
    IF before_root = after_root
    THEN PieceTreeDiff(TRUE, Range(0, 0), Some(Range(0, 0)))
    ELSE diff_slow_path(collect_leaves(before_root), collect_leaves(after_root))

diff_piece_trees(before_root, after_root) ==
    LET before_leaves == collect_leaves(before_root)
        after_leaves == collect_leaves(after_root)
    IN IF leaf_slices_equal(before_leaves, after_leaves)
       THEN PieceTreeDiff(TRUE, Range(0, 0), Some(Range(0, 0)))
       ELSE diff_slow_path(before_leaves, after_leaves)

\* The values of the locals `prefix` and `suffix` when diff_piece_trees returns;
\* None when it returned from the fast path, before they were declared.
diff_locals(before_root, after_root) ==
    LET before_leaves == collect_leaves(before_root)
        after_leaves == collect_leaves(after_root)
        prefix == common_prefix(before_leaves, after_leaves)
    IN IF leaf_slices_equal(before_leaves, after_leaves) THEN None
       ELSE Some([prefix |-> prefix,
                  suffix |-> common_suffix(before_leaves, after_leaves, prefix)])

(***************************************************************************)
(* A single contiguous byte edit of a piece tree: replace the bytes [i, j) *)
(* by k new bytes.  The leaves containing i and j are split; the new bytes *)
(* are one leaf in the Added buffer, placed after every span already used. *)
(***************************************************************************)
RECURSIVE take_bytes(_, _)
take_bytes(leaves, n) ==
    IF leaves = <<>> \/ n = 0 THEN <<>>
    ELSE LET l == Head(leaves)
         IN IF l.bytes <= n
            THEN <<l>> \o take_bytes(Tail(leaves), n - l.bytes)
            ELSE << LeafData(l.location, l.offset, n, None) >>

RECURSIVE drop_bytes(_, _)
drop_bytes(leaves, n) ==
    IF leaves = <<>> THEN <<>>
    ELSE LET l == Head(leaves)
         IN IF n = 0 THEN (IF l.bytes = 0 THEN drop_bytes(Tail(leaves), 0) ELSE leaves)
            ELSE IF l.bytes <= n THEN drop_bytes(Tail(leaves), n - l.bytes)
            ELSE << LeafData(l.location, l.offset + n, l.bytes - n, None) >> \o Tail(leaves)

RECURSIVE added_end(_)
added_end(leaves) ==
    IF leaves = <<>> THEN 0
    ELSE LET l == Head(leaves)
             rest == added_end(Tail(leaves))
         IN IF l.location = Added1 THEN Max(l.offset + l.bytes, rest) ELSE rest

apply_edit(leaves, i, j, k, line_feed_cnt) ==
    take_bytes(leaves, i)
      \o (IF k > 0 THEN << LeafData(Added1, added_end(leaves), k, line_feed_cnt) >> ELSE <<>>)
      \o drop_bytes(leaves, j)

(***************************************************************************)
(* The differ as a state machine: a baseline tree, and diffs of it against *)
(* arbitrary trees and against trees produced by one byte edit.            *)
(***************************************************************************)
MaxInsert == 2

LeafSeqs == SeqsUpTo(LeafPool, MaxLeaves)
Trees == { build(s) : s \in LeafSeqs }

DiffTrees(t) ==
    /\ diff = None
    /\ after' = t
    /\ diff' = Some(diff_piece_trees(before, t))
    /\ locals' = diff_locals(before, t)

DiffAgainst ==
    \E t \in Trees :
        /\ DiffTrees(t)
        /\ edit' = None
        /\ UNCHANGED <<before, navVars, uiVars>>

DiffAfterEdit ==
    LET before_leaves == collect_leaves(before)
        total == sum_bytes(before_leaves)
    IN \E i \in 0..total : \E j \in i..total : \E k \in 0..MaxInsert :
       \E lf \in {None, Some(0)} :
        /\ j > i \/ k > 0
        /\ DiffTrees(build(apply_edit(before_leaves, i, j, k, lf)))
        /\ edit' = Some([i |-> i, j |-> j, k |-> k])
        /\ UNCHANGED <<before, navVars, uiVars>>

(***************************************************************************)
(* Trees of another shape over the same leaves: every internal node keeps  *)
(* one leaf on its right, where tests::build splits in the middle.         *)
(***************************************************************************)
RECURSIVE build_left_heavy(_)
build_left_heavy(leaves) ==
    IF Len(leaves) <= 1 THEN build(leaves)
    ELSE LET mid == Len(leaves) - 1
         IN InternalNode(sum_bytes(Slice(leaves, 0, mid)),
                         sum_line_feeds(Slice(leaves, 0, mid)),
                         build_left_heavy(Slice(leaves, 0, mid)),
                         build(Slice(leaves, mid, Len(leaves))))

ShapeLeafPool ==
    { LeafData(Stored0, 0, 1, None),
      LeafData(Stored0, 1, 2, Some(1)),
      LeafData(Added1, 0, 1, Some(0)) }

ShapedTrees ==
    { build(s) : s \in SeqsUpTo(ShapeLeafPool, MaxLeaves) }
      \cup { build_left_heavy(s) : s \in SeqsUpTo(ShapeLeafPool, MaxLeaves) }

DiffShaped ==
    \E t \in ShapedTrees :
        /\ DiffTrees(t)
        /\ edit' = None
        /\ UNCHANGED <<before, navVars, uiVars>>

(***************************************************************************)
(* Layout, ViewLine, ViewPosition, Viewport.                               *)
(***************************************************************************)
MaxLine == 3
MaxCol == 3
MaxDir == 2
MaxHeight == 2

ViewLine(char_mappings) == [char_mappings |-> char_mappings]
Layout(lines) == [lines |-> lines]

ViewPosition(view_line, column, source_byte) ==
    [view_line |-> view_line, column |-> column, source_byte |-> source_byte]

Viewport(top_view_line, anchor_byte, width, height) ==
    [top_view_line |-> top_view_line, anchor_byte |-> anchor_byte,
     width |-> width, height |-> height]

\* tests::make_test_layout over lines of ASCII text, given by their lengths:
\* one slot per character, plus a newline slot on every line but the last.
RECURSIVE line_start_byte(_, _)
line_start_byte(lens, idx) ==
    IF idx = 0 THEN 0 ELSE line_start_byte(lens, idx - 1) + lens[idx] + 1

make_test_layout(lens) ==
    Layout([ idx \in 1..Len(lens) |->
        LET has_newline == idx < Len(lens)
            n == lens[idx] + (IF has_newline THEN 1 ELSE 0)
        IN ViewLine([ c \in 1..n |-> Some(line_start_byte(lens, idx - 1) + c - 1) ]) ])

\* A wrapped layout: line 1 is a continuation whose first slot is a synthetic
\* wrap marker with no source byte.
WrappedLayout ==
    Layout(<< ViewLine(<<Some(0), Some(1)>>), ViewLine(<<None, Some(2), Some(3)>>) >>)

Layouts ==
    { Layout(<<>>), make_test_layout(<<1>>), make_test_layout(<<2, 0, 1>>), WrappedLayout }

saturating_sub(a, b) == IF a >= b THEN a - b ELSE 0

\* Layout::view_position_to_source_byte
view_position_to_source_byte(l, view_line, column) ==
    IF view_line < Len(l.lines) /\ column < Len(l.lines[view_line + 1].char_mappings)
    THEN l.lines[view_line + 1].char_mappings[column + 1]
    ELSE None

\* Viewport::visible_line_count
visible_line_count(v) == v.height

\* line_len: layout.lines.get(idx).map(|l| l.char_mappings.len()).unwrap_or(0)
line_len_at(l, idx) ==
    IF idx < Len(l.lines) THEN Len(l.lines[idx + 1].char_mappings) ELSE 0

(***************************************************************************)
(* move_vertical, move_horizontal, move_line_start, move_line_end,         *)
(* move_page.                                                              *)
(***************************************************************************)
unwrap_or(o, d) == IF o = None THEN d ELSE Unwrap(o)

move_vertical_unclamped(l, c, preferred_col, direction) ==
    IF c.view_line = None THEN c
    ELSE LET current_line == Unwrap(c.view_line)
             current_col == unwrap_or(c.column, 0)
             target_line == Max(current_line + direction, 0)
             target_col == unwrap_or(preferred_col, current_col)
         IN ViewPosition(Some(target_line), Some(target_col),
                         view_position_to_source_byte(l, target_line, target_col))

move_vertical_resolving_line(l, c, preferred_col, direction) ==
    LET current_line == unwrap_or(c.view_line, 0)
        current_col == unwrap_or(c.column, 0)
        target_line == Min(Max(current_line + direction, 0),
                           saturating_sub(Len(l.lines), 1))
        target_col == unwrap_or(preferred_col, current_col)
    IN ViewPosition(Some(target_line), Some(target_col),
                    view_position_to_source_byte(l, target_line, target_col))

\* move_vertical with the column limited to the length of the destination line.
move_vertical_clamping_column(l, c, preferred_col, direction) ==
    IF c.view_line = None THEN c
    ELSE LET current_line == Unwrap(c.view_line)
             current_col == unwrap_or(c.column, 0)
             target_line == Min(Max(current_line + direction, 0),
                                saturating_sub(Len(l.lines), 1))
             target_col == Min(unwrap_or(preferred_col, current_col),
                               line_len_at(l, target_line))
         IN ViewPosition(Some(target_line), Some(target_col),
                         view_position_to_source_byte(l, target_line, target_col))

move_vertical(l, c, preferred_col, direction) ==
    IF c.view_line = None THEN c
    ELSE LET current_line == Unwrap(c.view_line)
             current_col == unwrap_or(c.column, 0)
             target_line == Min(Max(current_line + direction, 0),
                                saturating_sub(Len(l.lines), 1))
             target_col == unwrap_or(preferred_col, current_col)
         IN ViewPosition(Some(target_line), Some(target_col),
                         view_position_to_source_byte(l, target_line, target_col))

\* move_horizontal with one step of it changed: "unclamped_line" leaves line_idx
\* at the cursor's line, "strict_cross" crosses right only when raw_col > line_len,
\* "last_slot" lands on the last slot of the previous line, "unclamped_col" does
\* not limit the column to line_len.
move_horizontal_variant(l, c, direction, variant) ==
    IF c.view_line = None THEN c
    ELSE LET current_line == Unwrap(c.view_line)
             current_col == unwrap_or(c.column, 0)
             line_idx == IF variant = "unclamped_line" THEN current_line
                         ELSE Min(current_line, saturating_sub(Len(l.lines), 1))
             line_len == line_len_at(l, line_idx)
             raw_col == Max(current_col + direction, 0)
             reaches_end == IF variant = "strict_cross" THEN raw_col > line_len
                            ELSE raw_col >= line_len
         IN IF direction > 0 /\ reaches_end /\ line_idx + 1 < Len(l.lines)
            THEN ViewPosition(Some(line_idx + 1), Some(0),
                              view_position_to_source_byte(l, line_idx + 1, 0))
            ELSE IF direction < 0 /\ current_col = 0 /\ line_idx > 0
            THEN LET prev_line_idx == line_idx - 1
                     prev_line_len == IF variant = "last_slot"
                                      THEN saturating_sub(line_len_at(l, prev_line_idx), 1)
                                      ELSE line_len_at(l, prev_line_idx)
                 IN ViewPosition(Some(prev_line_idx), Some(prev_line_len),
                                 view_position_to_source_byte(l, prev_line_idx, prev_line_len))
            ELSE LET target_col == IF variant = "unclamped_col" THEN raw_col
                                   ELSE Min(raw_col, line_len)
                 IN ViewPosition(Some(line_idx), Some(target_col),
                                 view_position_to_source_byte(l, line_idx, target_col))

move_horizontal_unclamped_line(l, c, direction) ==
    move_horizontal_variant(l, c, direction, "unclamped_line")

move_horizontal_strict_cross(l, c, direction) ==
    move_horizontal_variant(l, c, direction, "strict_cross")

move_horizontal_last_slot(l, c, direction) ==
    move_horizontal_variant(l, c, direction, "last_slot")

move_horizontal_unclamped_col(l, c, direction) ==
    move_horizontal_variant(l, c, direction, "unclamped_col")

move_horizontal(l, c, direction) ==
    IF c.view_line = None THEN c
    ELSE LET current_line == Unwrap(c.view_line)
             current_col == unwrap_or(c.column, 0)
             line_idx == Min(current_line, saturating_sub(Len(l.lines), 1))
             line_len == line_len_at(l, line_idx)
             raw_col == Max(current_col + direction, 0)
         IN IF direction > 0 /\ raw_col >= line_len /\ line_idx + 1 < Len(l.lines)
            THEN ViewPosition(Some(line_idx + 1), Some(0),
                              view_position_to_source_byte(l, line_idx + 1, 0))
            ELSE IF direction < 0 /\ current_col = 0 /\ line_idx > 0
            THEN LET prev_line_idx == line_idx - 1
                     prev_line_len == line_len_at(l, prev_line_idx)
                 IN ViewPosition(Some(prev_line_idx), Some(prev_line_len),
                                 view_position_to_source_byte(l, prev_line_idx, prev_line_len))
            ELSE LET target_col == Min(raw_col, line_len)
                 IN ViewPosition(Some(line_idx), Some(target_col),
                                 view_position_to_source_byte(l, line_idx, target_col))

move_line_start_unclamped(l, c) ==
    IF c.view_line = None THEN c
    ELSE LET line_idx == Unwrap(c.view_line)
         IN ViewPosition(Some(line_idx), Some(0),
                         view_position_to_source_byte(l, line_idx, 0))

move_line_start(l, c) ==
    IF c.view_line = None THEN c
    ELSE LET line_idx == Min(Unwrap(c.view_line), saturating_sub(Len(l.lines), 1))
         IN ViewPosition(Some(line_idx), Some(0),
                         view_position_to_source_byte(l, line_idx, 0))

move_line_end_at_last_slot(l, c) ==
    IF c.view_line = None THEN c
    ELSE LET line_idx == Min(Unwrap(c.view_line), saturating_sub(Len(l.lines), 1))
             col == saturating_sub(line_len_at(l, line_idx), 1)
         IN ViewPosition(Some(line_idx), Some(col),
                         view_position_to_source_byte(l, line_idx, col))

\* move_line_end landing one column past the end of the line.
move_line_end_past_end(l, c) ==
    IF c.view_line = None THEN c
    ELSE LET line_idx == Min(Unwrap(c.view_line), saturating_sub(Len(l.lines), 1))
             col == line_len_at(l, line_idx) + 1
         IN ViewPosition(Some(line_idx), Some(col),
                         view_position_to_source_byte(l, line_idx, col))

move_line_end(l, c) ==
    IF c.view_line = None THEN c
    ELSE LET line_idx == Min(Unwrap(c.view_line), saturating_sub(Len(l.lines), 1))
             col == line_len_at(l, line_idx)
         IN ViewPosition(Some(line_idx), Some(col),
                         view_position_to_source_byte(l, line_idx, col))

move_page_by_full_height(l, c, v, direction) ==
    LET page == visible_line_count(v)
        delta == page * direction
    IN move_vertical(l, c, c.column, delta)

move_page(l, c, v, direction) ==
    LET page == saturating_sub(visible_line_count(v), 1)
        delta == page * direction
    IN move_vertical(l, c, c.column, delta)

(***************************************************************************)
(* The navigation functions as a state machine: each action hands the      *)
(* current cursor to one function and keeps its result as the new cursor.  *)
(***************************************************************************)
OptLines == {None} \cup { Some(n) : n \in 0..MaxLine }
OptCols == {None} \cup { Some(n) : n \in 0..MaxCol }
OptBytes == {None, Some(0), Some(2)}
Directions == (0 - MaxDir)..MaxDir
Cursors == { ViewPosition(vl, col, sb) : vl \in OptLines, col \in OptCols, sb \in OptBytes }
Viewports == { Viewport(0, 0, 80, h) : h \in 0..MaxHeight }

Call(op, preferred_col, direction) ==
    [op |-> op, preferred_col |-> preferred_col, direction |-> direction]

Navigate(result, c) ==
    /\ prev' = cursor
    /\ cursor' = result
    /\ call' = c
    /\ UNCHANGED <<layout, viewport, prev_viewport, resolved, diffVars, uiVars>>

MoveVertical ==
    \E pc \in OptCols : \E d \in Directions :
        Navigate(move_vertical(layout, cursor, pc, d), Call("move_vertical", pc, d))

MoveHorizontal ==
    \E d \in Directions :
        Navigate(move_horizontal(layout, cursor, d), Call("move_horizontal", None, d))

MoveLineStart ==
    Navigate(move_line_start(layout, cursor), Call("move_line_start", None, 0))

MoveLineEnd ==
    Navigate(move_line_end(layout, cursor), Call("move_line_end", None, 0))

MovePage ==
    \E d \in Directions :
        Navigate(move_page(layout, cursor, viewport, d), Call("move_page", None, d))

(***************************************************************************)
(* scroll_view, with the two Layout queries it uses.                       *)
(***************************************************************************)
MaxScroll == 3

\* Layout::max_top_line: the top line may not go past the point where the
\* layout's last line is the last visible line.
max_top_line(l, visible) == saturating_sub(Len(l.lines), visible)

\* Layout::get_source_byte_for_line: the first source byte mapped on the line.
RECURSIVE first_source_byte(_)
first_source_byte(mappings) ==
    IF mappings = <<>> THEN None
    ELSE IF Head(mappings) # None THEN Head(mappings)
    ELSE first_source_byte(Tail(mappings))

get_source_byte_for_line(l, view_line) ==
    IF view_line < Len(l.lines)
    THEN first_source_byte(l.lines[view_line + 1].char_mappings)
    ELSE None

scroll_view_without_max_top(l, v, line_offset) ==
    LET target == Max(v.top_view_line + line_offset, 0)
        byte == get_source_byte_for_line(l, target)
    IN Viewport(target, IF byte # None THEN Unwrap(byte) ELSE v.anchor_byte,
                v.width, v.height)

\* scroll_view setting anchor_byte to 0 when the layout resolves no byte.
scroll_view_resetting_anchor(l, v, line_offset) ==
    LET max_top == max_top_line(l, visible_line_count(v))
        target == Max(v.top_view_line + line_offset, 0)
        top_view_line == Min(target, max_top)
        byte == get_source_byte_for_line(l, top_view_line)
    IN Viewport(top_view_line, IF byte # None THEN Unwrap(byte) ELSE 0,
                v.width, v.height)

\* scroll_view mutates the viewport in place; the operator gives its new value.
scroll_view(l, v, line_offset) ==
    LET max_top == max_top_line(l, visible_line_count(v))
        target == Max(v.top_view_line + line_offset, 0)
        top_view_line == Min(target, max_top)
        byte == get_source_byte_for_line(l, top_view_line)
    IN Viewport(top_view_line, IF byte # None THEN Unwrap(byte) ELSE v.anchor_byte,
                v.width, v.height)

ScrollOffsets == (0 - MaxScroll)..MaxScroll
ScrollViewports ==
    { Viewport(top, anchor, 80, h) : top \in 0..MaxLine, anchor \in {0, 7}, h \in 0..MaxHeight }

ScrollView ==
    \E off \in ScrollOffsets :
        /\ prev_viewport' = Some(viewport)
        /\ viewport' = scroll_view(layout, viewport, off)
        /\ call' = Call("scroll_view", None, off)
        /\ UNCHANGED <<layout, cursor, prev, resolved, diffVars, uiVars>>

(***************************************************************************)
(* navigation/mapping.rs and navigation/edit_map.rs.                       *)
(***************************************************************************)
MaxByte == 5

\* The slots of a layout, in reading order, as <<view_line, column, source_byte>>.
RECURSIVE slots_from(_, _, _)
slots_from(l, view_line, column) ==
    IF view_line >= Len(l.lines) THEN <<>>
    ELSE IF column >= Len(l.lines[view_line + 1].char_mappings)
    THEN slots_from(l, view_line + 1, 0)
    ELSE << <<view_line, column, l.lines[view_line + 1].char_mappings[column + 1]>> >>
            \o slots_from(l, view_line, column + 1)

\* Layout::source_byte_to_view_position: the first slot mapped to the byte, or
\* else the first slot mapped to the nearest byte before it; None if there is none.
RECURSIVE nearest_slot(_, _, _)
nearest_slot(slots, source_byte, best) ==
    IF slots = <<>>
    THEN (IF best = None THEN None ELSE Some(<<Unwrap(best)[1], Unwrap(best)[2]>>))
    ELSE LET slot == Head(slots)
             byte == slot[3]
             better == /\ byte # None
                       /\ Unwrap(byte) <= source_byte
                       /\ best = None \/ Unwrap(Unwrap(best)[3]) < Unwrap(byte)
         IN nearest_slot(Tail(slots), source_byte, IF better THEN Some(slot) ELSE best)

source_byte_to_view_position(l, source_byte) ==
    nearest_slot(slots_from(l, 0, 0), source_byte, None)

view_pos_to_source(l, pos) ==
    IF pos.view_line = None THEN None
    ELSE IF pos.column = None THEN None
    ELSE view_position_to_source_byte(l, Unwrap(pos.view_line), Unwrap(pos.column))

source_to_view_pos_line_only(l, source_byte, preferred_col) ==
    LET found == unwrap_or(source_byte_to_view_position(l, source_byte), <<0, 0>>)
        col == unwrap_or(preferred_col, 0)
    IN ViewPosition(Some(found[1]), Some(col), Some(source_byte))

source_to_view_pos(l, source_byte, preferred_col) ==
    LET found == unwrap_or(source_byte_to_view_position(l, source_byte), <<0, 0>>)
        col == unwrap_or(preferred_col, found[2])
    IN ViewPosition(Some(found[1]), Some(col), Some(source_byte))

view_range_to_buffer_range_unordered(l, start, end) ==
    IF start.source_byte # None /\ end.source_byte # None
    THEN Some(Range(Unwrap(start.source_byte), Unwrap(end.source_byte)))
    ELSE None

view_range_to_buffer_range(l, start, end) ==
    IF start.source_byte # None /\ end.source_byte # None
    THEN LET s == Unwrap(start.source_byte)
             e == Unwrap(end.source_byte)
         IN Some(Range(Min(s, e), Max(s, e)))
    ELSE None

\* The three mapping calls are made on a fresh state: a call follows another only
\* as the second half of a round trip.
SourceToViewPos ==
    \E b \in 0..MaxByte : \E pc \in OptCols :
        /\ call.op = "none"
        /\ prev' = cursor
        /\ cursor' = source_to_view_pos(layout, b, pc)
        /\ call' = Call("source_to_view_pos", pc, b)
        /\ UNCHANGED <<layout, viewport, prev_viewport, resolved, diffVars, uiVars>>

\* view_pos_to_source on the current cursor; the call is recorded as a round trip
\* when the cursor is what source_to_view_pos has just returned.
ViewPosToSource ==
    /\ call.op \in {"none", "source_to_view_pos"}
    /\ resolved' = view_pos_to_source(layout, cursor)
    /\ call' = IF call.op = "source_to_view_pos"
               THEN Call("round_trip", call.preferred_col, call.direction)
               ELSE Call("view_pos_to_source", None, 0)
    /\ UNCHANGED <<layout, viewport, cursor, prev, prev_viewport, diffVars, uiVars>>

RangeEndpoints ==
    { ViewPosition(vl, col, sb) : vl \in {None, Some(0)}, col \in {None, Some(1)},
                                  sb \in {None} \cup { Some(b) : b \in 0..MaxCol } }

ViewRangeToBufferRange ==
    \E start \in RangeEndpoints : \E end \in RangeEndpoints :
        /\ call.op = "none"
        /\ prev' = start
        /\ cursor' = end
        /\ resolved' = view_range_to_buffer_range(layout, start, end)
        /\ call' = Call("view_range_to_buffer_range", None, 0)
        /\ UNCHANGED <<layout, viewport, prev_viewport, diffVars, uiVars>>

(***************************************************************************)
(* Specifications.                                                         *)
(***************************************************************************)
(***************************************************************************)
(* selection.rs: Selection over ViewPosition.  ViewPosition's ordering is  *)
(* the field-by-field ordering of (view_line, column, source_byte), with   *)
(* None below every Some.                                                  *)
(***************************************************************************)
MaxSel == 1

Selection(start, end) == [start |-> start, end |-> end]

option_lt(a, b) ==
    \/ a = None /\ b # None
    \/ a # None /\ b # None /\ Unwrap(a) < Unwrap(b)

view_position_lt(a, b) ==
    \/ option_lt(a.view_line, b.view_line)
    \/ a.view_line = b.view_line /\ option_lt(a.column, b.column)
    \/ a.view_line = b.view_line /\ a.column = b.column
         /\ option_lt(a.source_byte, b.source_byte)

view_position_le(a, b) == a = b \/ view_position_lt(a, b)

\* normalized() returning the selection as it is.
normalized_never_swapping(s) == s

normalized(s) ==
    IF view_position_le(s.start, s.end) THEN s
    ELSE Selection(s.end, s.start)

is_empty(s) == s.start = s.end

SelCoords == {None} \cup { Some(n) : n \in 0..MaxSel }
SelPositions ==
    { ViewPosition(vl, col, sb) : vl \in SelCoords, col \in SelCoords, sb \in {None, Some(0)} }
Selections == { Selection(a, b) : a \in SelPositions, b \in SelPositions }

SelIdle ==
    /\ selection = Selection(ViewPosition(None, None, None), ViewPosition(None, None, None))
    /\ sel_given = None

Normalized ==
    /\ sel_given' = Some(selection)
    /\ selection' = normalized(selection)
    /\ UNCHANGED <<diffVars, navVars, gotoVars, fileVars>>

(***************************************************************************)
(* Characters and strings.  A string is a sequence of one-character        *)
(* strings; a character no string literal can hold is named by its code    *)
(* point ("U+00A0").  The tables cover the characters of the model; a      *)
(* character outside them has no value here.                               *)
(***************************************************************************)
Digits == <<"0", "1", "2", "3", "4", "5", "6", "7", "8", "9">>
is_digit(c) == \E i \in 1..Len(Digits) : Digits[i] = c
digit_value(c) == (CHOOSE i \in 1..Len(Digits) : Digits[i] = c) - 1

\* char::is_whitespace: the characters with the Unicode property White_Space.
WhiteSpace ==
    { " ", "\t", "\n", "\f", "\r", "U+000B", "U+0085", "U+00A0", "U+1680",
      "U+2000", "U+2001", "U+2002", "U+2003", "U+2004", "U+2005", "U+2006",
      "U+2007", "U+2008", "U+2009", "U+200A", "U+2028", "U+2029", "U+202F",
      "U+205F", "U+3000" }
is_whitespace(c) == c \in WhiteSpace

Upper ==
    <<"A", "B", "C", "D", "E", "F", "G", "H", "I", "J", "K", "L", "M",
      "N", "O", "P", "Q", "R", "S", "T", "U", "V", "W", "X", "Y", "Z">>
Lower ==
    <<"a", "b", "c", "d", "e", "f", "g", "h", "i", "j", "k", "l", "m",
      "n", "o", "p", "q", "r", "s", "t", "u", "v", "w", "x", "y", "z">>

\* The characters of names and filters in code-point order, which is the order
\* of their UTF-8 bytes: ASCII, then E-acute (U+00C9, U+00E9), I with dot above
\* (U+0130), the digraph DZ with caron in title and lower case (U+01C5, U+01C6),
\* the combining dot above (U+0307), Greek Delta, Omicron, Sigma and their lower
\* case with the final sigma (U+03C2), Cyrillic A (U+0410, U+0430).
CharOrder ==
    <<" ", "+", "-", ".", "/">> \o Digits \o Upper \o <<"_">> \o Lower \o <<"~">>
    \o <<"U+00C9", "U+00E9", "U+0130", "U+01C5", "U+01C6", "U+0307",
         "U+0394", "U+039F", "U+03A3", "U+03B4", "U+03BF", "U+03C2", "U+03C3",
         "U+0410", "U+0430">>
CharSet == { CharOrder[i] : i \in 1..Len(CharOrder) }
CharRank == [ c \in CharSet |-> CHOOSE i \in 1..Len(CharOrder) : CharOrder[i] = c ]
char_rank(c) == CharRank[c]

\* char::len_utf8
TwoByteChars ==
    { "U+0085", "U+00A0", "U+00C9", "U+00E9", "U+0130", "U+01C5", "U+01C6", "U+0307",
      "U+0394", "U+039F", "U+03A3", "U+03B4", "U+03BF", "U+03C2", "U+03C3",
      "U+0410", "U+0430" }
ThreeByteChars == { c \in WhiteSpace : c \notin {" ", "\t", "\n", "\f", "\r", "U+000B", "U+0085", "U+00A0"} }
OneByteChars == (CharSet \cup WhiteSpace) \ (TwoByteChars \cup ThreeByteChars)
len_utf8(c) ==
    CASE c \in OneByteChars -> 1
      [] c \in TwoByteChars -> 2
      [] c \in ThreeByteChars -> 3

\* char::to_lowercase: the lower-case mapping of a character, one or two
\* characters long.
LowerPairs ==
    { <<"U+00C9", <<"U+00E9">>>>, <<"U+0130", <<"i", "U+0307">>>>,
      <<"U+01C5", <<"U+01C6">>>>, <<"U+0394", <<"U+03B4">>>>,
      <<"U+039F", <<"U+03BF">>>>, <<"U+03A3", <<"U+03C3">>>>,
      <<"U+0410", <<"U+0430">>>> }
LowerOf ==
    [ c \in CharSet |->
        IF \E i \in 1..Len(Upper) : Upper[i] = c
        THEN <<Lower[CHOOSE i \in 1..Len(Upper) : Upper[i] = c]>>
        ELSE IF \E p \in LowerPairs : p[1] = c
        THEN (CHOOSE p \in LowerPairs : p[1] = c)[2]
        ELSE <<c>> ]
char_to_lowercase(c) == LowerOf[c]

\* The Unicode properties Cased and Case_Ignorable on the characters of the model.
Cased ==
    { Upper[i] : i \in 1..Len(Upper) } \cup { Lower[i] : i \in 1..Len(Lower) }
    \cup { "U+00C9", "U+00E9", "U+0130", "U+01C5", "U+01C6", "U+0394", "U+039F",
           "U+03A3", "U+03B4", "U+03BF", "U+03C2", "U+03C3", "U+0410", "U+0430" }
CaseIgnorable == { ".", "U+0307" }

RECURSIVE case_ignorable_then_cased(_)
case_ignorable_then_cased(chars) ==
    IF chars = <<>> THEN FALSE
    ELSE IF Head(chars) \in CaseIgnorable THEN case_ignorable_then_cased(Tail(chars))
    ELSE Head(chars) \in Cased

reversed(str) == [ i \in 1..Len(str) |-> str[Len(str) + 1 - i] ]

\* A capital sigma at the end of a word becomes the final sigma.
map_uppercase_sigma(from, i) ==
    LET is_word_final ==
          /\ case_ignorable_then_cased(reversed(SubSeq(from, 1, i - 1)))
          /\ ~case_ignorable_then_cased(SubSeq(from, i + 1, Len(from)))
    IN IF is_word_final THEN "U+03C2" ELSE "U+03C3"

RECURSIVE to_lowercase_from(_, _)
to_lowercase_from(str, i) ==
    IF i > Len(str) THEN <<>>
    ELSE (IF str[i] = "U+03A3" THEN <<map_uppercase_sigma(str, i)>>
          ELSE char_to_lowercase(str[i]))
         \o to_lowercase_from(str, i + 1)

\* str::to_lowercase
to_lowercase(str) == to_lowercase_from(str, 1)

RECURSIVE trim_start(_)
trim_start(str) ==
    IF str # <<>> /\ is_whitespace(Head(str)) THEN trim_start(Tail(str)) ELSE str

RECURSIVE trim_end(_)
trim_end(str) ==
    IF str # <<>> /\ is_whitespace(str[Len(str)])
    THEN trim_end(SubSeq(str, 1, Len(str) - 1))
    ELSE str

trim(str) == trim_end(trim_start(str))

RECURSIVE parse_digits(_, _)
parse_digits(str, acc) ==
    IF str = <<>> THEN acc
    ELSE parse_digits(Tail(str), acc * 10 + digit_value(Head(str)))

\* str::parse::<usize>: an optional leading "+", then one or more decimal digits;
\* Some(value) for Ok, None for Err.  The inputs are too short to overflow usize.
parse_usize(str) ==
    LET digits == IF str # <<>> /\ Head(str) = "+" THEN Tail(str) ELSE str
    IN IF digits = <<>> \/ \E i \in 1..Len(digits) : ~is_digit(digits[i])
       THEN None
       ELSE Some(parse_digits(digits, 0))

\* A panic of a method that otherwise gives the next state.
Panic == [panic |-> TRUE]

\* String::len, str::is_char_boundary, String::remove and String::drain, in bytes
\* of the UTF-8 encoding.
RECURSIVE str_len(_)
str_len(str) == IF str = <<>> THEN 0 ELSE len_utf8(Head(str)) + str_len(Tail(str))

is_char_boundary(str, index) ==
    \E k \in 0..Len(str) : str_len(SubSeq(str, 1, k)) = index

\* The number of characters before the char boundary at byte index.
chars_before(str, index) ==
    CHOOSE k \in 0..Len(str) : str_len(SubSeq(str, 1, k)) = index

\* String::drain(start..end) panics unless start <= end and both are char
\* boundaries of the string.
string_drain_panics(str, start, end) ==
    start > end \/ ~is_char_boundary(str, start) \/ ~is_char_boundary(str, end)
string_drain(str, start, end) ==
    IF string_drain_panics(str, start, end) THEN Panic
    ELSE SubSeq(str, 1, chars_before(str, start)) \o
         SubSeq(str, chars_before(str, end) + 1, Len(str))

\* String::remove(idx) panics when idx is not the start of a character: at or
\* behind the end of the string, or inside a character.
string_remove_panics(str, idx) ==
    idx >= str_len(str) \/ ~is_char_boundary(str, idx)
string_remove(str, idx) ==
    IF string_remove_panics(str, idx) THEN Panic
    ELSE LET k == chars_before(str, idx)
         IN SubSeq(str, 1, k) \o SubSeq(str, k + 2, Len(str))

(***************************************************************************)
(* editor/input.rs: Editor::handle_key, handle_prompt_action,              *)
(* handle_action, handle_prompt_confirm and handle_goto_line.  A status    *)
(* message is the sequence of the pieces format! joins.  The buffer is     *)
(* given by the lengths of its lines, the layout is the unwrapped layout   *)
(* of that buffer.                                                         *)
(***************************************************************************)
MaxEstimate == 2
MaxEvents == 1
MaxHistory == 1

\* Buffer::len, Buffer::line_col_to_position(line, 0) and the position a
\* LineIterator started at an offset reports: the first line start at or after it.
buffer_len(lens) == line_start_byte(lens, Len(lens)) - 1
line_col_to_position(lens, line) == line_start_byte(lens, Min(line, Len(lens) - 1))
line_iterator_current_position(lens, offset) ==
    LET starts == { line_start_byte(lens, i) : i \in 0..(Len(lens) - 1) }
        ahead == { b \in starts : b >= offset }
    IN IF ahead = {} THEN buffer_len(lens)
       ELSE CHOOSE b \in ahead : \A c \in ahead : b <= c

MoveCursor(old_position, new_position, old_anchor, new_anchor, old_sticky_column, new_sticky_column) ==
    [old_position |-> old_position, new_position |-> new_position,
     old_anchor |-> old_anchor, new_anchor |-> new_anchor,
     old_sticky_column |-> old_sticky_column, new_sticky_column |-> new_sticky_column]

\* The prompt: its text, its type, the cursor as a byte index into the text and
\* the byte index a selection started at.
Prompt(input, prompt_type, cursor_pos, selection_anchor) ==
    [input |-> input, prompt_type |-> prompt_type, cursor_pos |-> cursor_pos,
     selection_anchor |-> selection_anchor]
\* An entry of the position history.  A buffer id is given by the buffer it names.
PositionEntry(buffer_id, position, anchor) ==
    [buffer_id |-> buffer_id, position |-> position, anchor |-> anchor]

\* An edit event of action_to_events: text inserted at a byte.
Insert(text, at) == [insert |-> text, at |-> at]

\* Prompt::has_selection, delete_selection and clear_selection.
has_selection(p) ==
    p.selection_anchor # None /\ Unwrap(p.selection_anchor) # p.cursor_pos
delete_selection(p) ==
    LET start == Min(Unwrap(p.selection_anchor), p.cursor_pos)
        end == Max(Unwrap(p.selection_anchor), p.cursor_pos)
    IN IF string_drain_panics(p.input, start, end) THEN Panic
       ELSE [p EXCEPT !.input = string_drain(p.input, start, end),
                      !.cursor_pos = start, !.selection_anchor = None]
clear_selection(p) == [p EXCEPT !.selection_anchor = None]

\* The editor with its active split and active buffer: has_view_state and
\* has_buffer say whether split_view_states and buffers hold them, as they do in
\* an editor with an open buffer.
Editor(lens, line_count, estimated_line_length, position, anchor, sticky_column) ==
    [buffer |-> lens, line_count |-> line_count,
     estimated_line_length |-> estimated_line_length,
     has_view_state |-> TRUE, has_buffer |-> TRUE,
     position |-> position, anchor |-> anchor, sticky_column |-> sticky_column,
     event_log |-> <<>>, position_history |-> <<>>, status_message |-> None,
     prompt |-> None]

\* What a handler gives: the editor it leaves and the io::Result it returns.
Returned(e, result) == [editor |-> e, returned |-> result]
Ok(e) == Returned(e, "Ok")

set_status_message(e, message) == [e EXCEPT !.status_message = Some(message)]

\* Editor::start_prompt, cancel_prompt and confirm_prompt: a new empty prompt; the
\* prompt dropped with the message "Canceled"; the prompt taken.
start_prompt(e, prompt_type) == [e EXCEPT !.prompt = Some(Prompt(<<>>, prompt_type, 0, None))]
cancel_prompt(e) == [e EXCEPT !.prompt = None, !.status_message = Some(<<"Canceled">>)]
confirm_prompt(e) == [e EXCEPT !.prompt = None]

\* Editor::set_active_buffer: the buffer named becomes the active one.
set_active_buffer(e, buffer_id) ==
    [e EXCEPT !.buffer = buffer_id,
              !.line_count = IF @ = None THEN None ELSE Some(Len(buffer_id))]

\* apply_event_to_active_buffer: a MoveCursor event sets the cursor; an edit event
\* changes the text of the buffer and leaves what is held here as it is.
apply_event_to_active_buffer(e, event) ==
    IF "new_position" \in DOMAIN event
    THEN [e EXCEPT !.position = event.new_position,
                   !.anchor = event.new_anchor,
                   !.sticky_column = event.new_sticky_column]
    ELSE e

\* apply_events: every event is appended to the log and applied.
RECURSIVE apply_events(_, _)
apply_events(e, events) ==
    IF events = <<>> THEN e
    ELSE apply_events(
           apply_event_to_active_buffer([e EXCEPT !.event_log = Append(@, Head(events))],
                                        Head(events)),
           Tail(events))

\* jump_to_history_entry: the buffer of the entry becomes the active one and the
\* cursor goes to the entry, nothing is logged.
jump_to_history_entry(e, entry) ==
    LET buffer_id == entry.buffer_id
        new_pos == entry.position
        new_anchor == entry.anchor
    IN apply_event_to_active_buffer(set_active_buffer(e, buffer_id),
         MoveCursor(new_pos, new_pos, new_anchor, new_anchor, None, Some(new_pos.column)))

\* The exact-mode branch without the clamp to the last line.
goto_exact_unclamped(e, l, line_num, target_line) ==
    LET max_line == saturating_sub(unwrap_or(e.line_count, 1), 1)
        actual_line == target_line
        source_byte == line_col_to_position(e.buffer, actual_line)
    IN [view_pos |-> source_to_view_pos(l, source_byte, None),
        msg |-> IF target_line > max_line
                THEN <<"Line ", line_num, " doesn't exist, jumped to line ", actual_line + 1>>
                ELSE <<"Jumped to line ", line_num>>]

\* The exact-mode branch: (new_position, status_message).
goto_exact(e, l, line_num, target_line) ==
    LET max_line == saturating_sub(unwrap_or(e.line_count, 1), 1)
        actual_line == Min(target_line, max_line)
        source_byte == line_col_to_position(e.buffer, actual_line)
    IN [view_pos |-> source_to_view_pos(l, source_byte, None),
        msg |-> IF target_line > max_line
                THEN <<"Line ", line_num, " doesn't exist, jumped to line ", actual_line + 1>>
                ELSE <<"Jumped to line ", line_num>>]

\* The large-file branch: (new_position, status_message).
goto_large(e, l, line_num, target_line) ==
    LET estimated_offset == target_line * e.estimated_line_length
        clamped_offset == Min(estimated_offset, buffer_len(e.buffer))
        source_byte == line_iterator_current_position(e.buffer, clamped_offset)
    IN [view_pos |-> source_to_view_pos(l, source_byte, None),
        msg |-> <<"Jumped to estimated line ", line_num, " (large file mode)">>]

\* The Ok(line_num) arm.  With the view state of the active split and the active
\* buffer at hand the MoveCursor event is appended and applied, the movement
\* recorded and the status message set; without one of them nothing happens.
goto_move(e, l, line_num) ==
    IF ~(e.has_view_state /\ e.has_buffer) THEN e
    ELSE
    LET target_line == saturating_sub(line_num, 1)
        is_large_file == e.line_count = None
        moved == IF is_large_file THEN goto_large(e, l, line_num, target_line)
                 ELSE goto_exact(e, l, line_num, target_line)
        new_position == moved.view_pos
        event == MoveCursor(e.position, new_position, e.anchor, None,
                            e.sticky_column, Some(new_position.column))
        applied == apply_event_to_active_buffer(
                     [e EXCEPT !.event_log = Append(@, event)], event)
    IN [applied EXCEPT !.position_history = Append(@, PositionEntry(e.buffer, new_position, None)),
                       !.status_message = Some(moved.msg)]

\* handle_goto_line taking the move arm for every number that parses.
handle_goto_line_accepting_zero(e, l, input) ==
    LET parsed == parse_usize(trim(input))
    IN IF parsed # None THEN Ok(goto_move(e, l, Unwrap(parsed)))
       ELSE Ok(set_status_message(e, <<"Invalid line number: ", input>>))

\* handle_goto_line: every arm of the match ends in Ok(()).
handle_goto_line(e, l, input) ==
    LET parsed == parse_usize(trim(input))
    IN IF parsed # None /\ Unwrap(parsed) > 0 THEN Ok(goto_move(e, l, Unwrap(parsed)))
       ELSE IF parsed # None
       THEN Ok(set_status_message(e, <<"Line number must be positive">>))
       ELSE Ok(set_status_message(e, <<"Invalid line number: ", input>>))

handle_prompt_confirm(e, l, input, prompt_type) ==
    IF prompt_type = "GotoLine" THEN handle_goto_line(e, l, input)
    ELSE Ok(set_status_message(e, <<"Prompt type not yet implemented">>))

\* The actions whose events come from action_to_events: the edits and the
\* movements.
EditActions == { "InsertChar", "InsertNewline", "DeleteBackward", "DeleteForward" }
MoveActions ==
    { "MoveLeft", "MoveRight", "MoveUp", "MoveDown", "MoveLineStart", "MoveLineEnd",
      "MovePageUp", "MovePageDown", "MoveDocumentStart", "MoveDocumentEnd",
      "SelectLeft", "SelectRight", "SelectUp", "SelectDown", "SelectLineStart",
      "SelectLineEnd", "SelectDocumentStart", "SelectDocumentEnd",
      "ScrollUp", "ScrollDown" }
SelectActions ==
    { "SelectLeft", "SelectRight", "SelectUp", "SelectDown", "SelectLineStart",
      "SelectLineEnd", "SelectDocumentStart", "SelectDocumentEnd" }
EventActions == EditActions \cup MoveActions

\* The actions handle_prompt_action has an arm for.
PromptActions ==
    { "PromptConfirm", "PromptCancel", "PromptBackspace", "PromptDelete",
      "PromptMoveLeft", "PromptMoveRight", "PromptMoveStart", "PromptMoveEnd",
      "PromptSelectPrev", "PromptSelectNext" }

\* The actions handle_action leaves the editor alone on: the arms that do nothing
\* and the actions without an arm, which the `_` arm takes.
NoOpActions ==
    { "None", "Prompt", "PopupShowDocumentation", "PopupScrollDown", "PopupScrollUp" }
    \cup (PromptActions \ {"PromptConfirm"})
    \cup { "PromptPageUp", "PromptPageDown", "PromptAcceptSuggestion" }

\* The arms that write only what the Editor above does not hold: should_quit, the
\* popups and the margins of the active buffer.
UntrackedActions ==
    { "Quit", "PopupCancel", "PopupSelectNext", "PopupSelectPrev", "PopupPageDown",
      "PopupPageUp", "ToggleLineNumbers" }

\* The arms that pass on the io::Result of the Editor method they call, and the
\* arms that call an Editor method and go on.
FallibleActions == { "OpenFile", "Save", "SaveAll" }
ExternalActions ==
    { "CommandPalette", "PopupConfirm", "LspCompletion", "LspGotoDefinition", "LspHover",
      "LspReferences", "LspRename", "Undo", "Redo", "Cut", "Copy", "Paste", "SelectAll",
      "Find", "FindNext", "FindPrev", "Replace", "ReplaceNext", "ToggleLineWrap",
      "SplitHorizontal", "SplitVertical", "CloseSplit", "NextSplit", "PrevSplit",
      "FocusFileExplorer", "ToggleFileExplorer", "OpenRecent", "OpenConfig", "OpenHelp",
      "OpenThemeSwitcher", "ToggleComposeMode", "PromptSaveAs", "PromptOpen",
      "PromptSearch", "PromptReplace", "PromptCommand", "OpenLogs", "PluginAction" }

\* handle_action.  events is what action_to_events answers, entry what
\* position_history.back() or forward() answers, external what the Editor method
\* of an arm of FallibleActions or ExternalActions leaves and returns.
handle_action(e, l, action, events, entry, external) ==
    CASE action = "GotoLine" -> Ok(start_prompt(e, "GotoLine"))
      [] action \in EventActions ->
           Ok(IF events # None THEN apply_events(e, Unwrap(events)) ELSE e)
      [] action = "PromptConfirm" ->
           (IF e.prompt # None
            THEN LET confirmed ==
                       handle_prompt_confirm(confirm_prompt(e), l, Unwrap(e.prompt).input,
                                             Unwrap(e.prompt).prompt_type)
                 IN IF confirmed.returned # "Ok" THEN confirmed ELSE Ok(confirmed.editor)
            ELSE Ok(e))
      [] action \in {"Back", "Forward"} ->
           Ok(IF entry # None THEN jump_to_history_entry(e, Unwrap(entry)) ELSE e)
      [] action = "PromptClose" -> Ok(cancel_prompt(e))
      [] action \in FallibleActions ->
           (IF external.returned # "Ok" THEN external ELSE Ok(external.editor))
      [] action \in ExternalActions -> Ok(external.editor)
      [] action \in UntrackedActions -> Ok(e)
      [] action \in NoOpActions -> Ok(e)

\* The byte index of the character before index, and of the one after it.
RECURSIVE char_start_before(_, _)
char_start_before(str, char_start) ==
    IF char_start > 0 /\ ~is_char_boundary(str, char_start)
    THEN char_start_before(str, char_start - 1)
    ELSE char_start

RECURSIVE char_end_after(_, _)
char_end_after(str, char_end) ==
    IF char_end < str_len(str) /\ ~is_char_boundary(str, char_end)
    THEN char_end_after(str, char_end + 1)
    ELSE char_end

prompt_backspace(p) ==
    IF has_selection(p) THEN delete_selection(p)
    ELSE IF p.cursor_pos > 0
    THEN LET char_start == char_start_before(p.input, p.cursor_pos - 1)
         IN IF string_remove_panics(p.input, char_start) THEN Panic
            ELSE [p EXCEPT !.input = string_remove(p.input, char_start),
                           !.cursor_pos = char_start]
    ELSE p

prompt_delete(p) ==
    IF has_selection(p) THEN delete_selection(p)
    ELSE IF p.cursor_pos < str_len(p.input)
    THEN LET char_end == char_end_after(p.input, p.cursor_pos + 1)
         IN IF string_drain_panics(p.input, p.cursor_pos, char_end) THEN Panic
            ELSE [p EXCEPT !.input = string_drain(p.input, p.cursor_pos, char_end)]
    ELSE p

prompt_move_left(p) ==
    IF p.cursor_pos > 0
    THEN [clear_selection(p) EXCEPT !.cursor_pos = char_start_before(p.input, p.cursor_pos - 1)]
    ELSE clear_selection(p)

prompt_move_right(p) ==
    IF p.cursor_pos < str_len(p.input)
    THEN [clear_selection(p) EXCEPT !.cursor_pos = char_end_after(p.input, p.cursor_pos + 1)]
    ELSE clear_selection(p)

prompt_move_start(p) == [clear_selection(p) EXCEPT !.cursor_pos = 0]
prompt_move_end(p) == [clear_selection(p) EXCEPT !.cursor_pos = str_len(p.input)]

\* The arms of handle_prompt_action that work on the prompt.  The suggestions of
\* the prompt are not held, so PromptSelectPrev and PromptSelectNext leave it as
\* it is, as the `_` arm does.
prompt_action(p, action) ==
    CASE action = "PromptBackspace" -> prompt_backspace(p)
      [] action = "PromptDelete" -> prompt_delete(p)
      [] action = "PromptMoveLeft" -> prompt_move_left(p)
      [] action = "PromptMoveRight" -> prompt_move_right(p)
      [] action = "PromptMoveStart" -> prompt_move_start(p)
      [] action = "PromptMoveEnd" -> prompt_move_end(p)
      [] OTHER -> p

handle_prompt_action(e, l, action, events, entry, external) ==
    IF action = "PromptConfirm" THEN handle_action(e, l, action, events, entry, external)
    ELSE IF action = "PromptCancel" THEN Ok(cancel_prompt(e))
    ELSE IF e.prompt # None
    THEN LET p == prompt_action(Unwrap(e.prompt), action)
         IN IF p = Panic THEN Panic ELSE Ok([e EXCEPT !.prompt = Some(p)])
    ELSE Ok(e)

\* What the editor outside this file answers while a key is handled: whether a
\* menu is open and a popup visible, whether the top popup is dismissed by any key
\* and whether one stays visible after that, the stored key context, the command
\* a mode keybinding names with the action the registry has for it, what the
\* chord resolution gives, and the action the single key resolves to.
Key(menu_active, popup_visible, popup_dismissable, popup_visible_after, key_context, mode_command, chord, action) ==
    [menu_active |-> menu_active, popup_visible |-> popup_visible,
     popup_dismissable |-> popup_dismissable,
     popup_visible_after |-> popup_visible_after, key_context |-> key_context,
     mode_command |-> mode_command, chord |-> chord, action |-> action]
Command(name, action) == [name |-> name, action |-> action]
Complete(action) == [kind |-> "Complete", action |-> action]
Partial == [kind |-> "Partial", action |-> "None"]
NoMatch == [kind |-> "NoMatch", action |-> "None"]

get_key_context(e, menu_active, popup_visible, key_context) ==
    IF menu_active THEN "Menu"
    ELSE IF e.prompt # None THEN "Prompt"
    ELSE IF popup_visible THEN "Popup"
    ELSE key_context

\* The context handle_key resolves the key in, after a hover or signature popup
\* was dismissed.
key_context_of(e, key) ==
    LET context == get_key_context(e, key.menu_active, key.popup_visible, key.key_context)
    IN IF context = "Popup" /\ key.popup_dismissable
       THEN get_key_context(e, key.menu_active, key.popup_visible_after, key.key_context)
       ELSE context

\* Where handle_key hands the key: to handle_action or handle_prompt_action with
\* an action, to close_buffer, to the status message of revert-buffer, or nowhere
\* (a partial chord).
key_dispatch(e, key) ==
    LET context == key_context_of(e, key)
    IN IF context \in {"Normal", "FileExplorer"} /\ key.mode_command # None
       THEN (LET cmd == Unwrap(key.mode_command)
             IN IF cmd.action # None
                THEN [to |-> "handle_action", action |-> Unwrap(cmd.action)]
                ELSE IF cmd.name = "close-buffer"
                THEN [to |-> "close_buffer", action |-> "None"]
                ELSE IF cmd.name = "revert-buffer"
                THEN [to |-> "revert-buffer", action |-> "None"]
                ELSE [to |-> "handle_action", action |-> "PluginAction"])
       ELSE IF key.chord.kind = "Complete"
       THEN [to |-> "handle_action", action |-> key.chord.action]
       ELSE IF key.chord.kind = "Partial" THEN [to |-> "return", action |-> "None"]
       ELSE IF context = "Prompt"
       THEN [to |-> "handle_prompt_action", action |-> key.action]
       ELSE [to |-> "handle_action", action |-> key.action]

\* handle_key; external is also what close_buffer leaves and returns.
handle_key(e, l, key, events, entry, external) ==
    LET d == key_dispatch(e, key)
    IN CASE d.to = "handle_action" -> handle_action(e, l, d.action, events, entry, external)
         [] d.to = "handle_prompt_action" ->
              handle_prompt_action(e, l, d.action, events, entry, external)
         [] d.to = "close_buffer" -> external
         [] d.to = "revert-buffer" -> Ok(set_status_message(e, <<"Refreshing buffer...">>))
         [] d.to = "return" -> Ok(e)

\* The action handle_action is called with while the key is handled, "None" when
\* it is not called.
key_action(e, key) ==
    LET d == key_dispatch(e, key)
    IN IF d.to = "handle_action" THEN d.action
       ELSE IF d.to = "handle_prompt_action" /\ d.action = "PromptConfirm" THEN d.action
       ELSE "None"

\* Whether handling the key calls an Editor method given by external.
key_is_external(e, key) ==
    \/ key_dispatch(e, key).to = "close_buffer"
    \/ key_action(e, key) \in FallibleActions \cup ExternalActions

\* The texts entered into a goto-line prompt: a number beyond the buffer, one
\* inside it behind a two-byte white space, zero behind a space, text that is no
\* number.
Inputs == { <<"2", "2">>, <<"U+00A0", "2">>, <<" ", "0">>, <<"x">> }
GotoCursors == { ViewPosition(Some(0), Some(1), Some(1)), ViewPosition(None, None, None) }

\* The prompt with the text set by the prompt input outside this file: the cursor
\* behind the text, or the text selected from its start.  No handler of this file
\* reads the text of a prompt of another type, which stays as it is.
Typed(p) ==
    IF p.prompt_type # "GotoLine" THEN {p}
    ELSE { [p EXCEPT !.input = input, !.cursor_pos = str_len(input),
                     !.selection_anchor = None] : input \in Inputs }
         \cup { [p EXCEPT !.input = <<"2", "0">>, !.cursor_pos = 2,
                          !.selection_anchor = Some(0)] }

\* The buffers an editor holds, by the lengths of their lines.
GotoBuffers == { <<2, 0, 1>>, <<1>> }

\* The editors at the start: the first buffer in exact or in large-file mode, the
\* cursor resolved with a selection or unresolved.  The active split has its view
\* state and the active buffer is held.
GotoEditors ==
    { Editor(<<2, 0, 1>>, Some(3), 1, pos,
             IF pos.view_line # None THEN Some(pos) ELSE None,
             IF pos.view_line # None THEN Some(Some(2)) ELSE None) : pos \in GotoCursors }
    \cup
    { Editor(<<2, 0, 1>>, None, est, ViewPosition(None, None, None), None, None) :
        est \in 1..MaxEstimate }

\* What an Editor method outside this file may leave: the editor as it was, the
\* cursor elsewhere, another status message, the prompt closed or a prompt of
\* another type opened, another buffer with the cursor at its start.  The event
\* log and the position history stay as they are.
ExternalOutcomes(e) ==
    { e,
      [e EXCEPT !.position = ViewPosition(Some(0), Some(1), Some(1)),
                !.anchor = Some(ViewPosition(Some(0), Some(0), Some(0))),
                !.sticky_column = None],
      [e EXCEPT !.status_message = Some(<<"...">>)],
      [e EXCEPT !.prompt = None],
      [e EXCEPT !.prompt = Some(Prompt(<<>>, "Search", 0, None))] }
    \cup
    { [e EXCEPT !.buffer = lens,
                !.line_count = IF @ = None THEN None ELSE Some(Len(lens)),
                !.position = ViewPosition(Some(0), Some(0), Some(0)),
                !.anchor = None,
                !.sticky_column = None] : lens \in GotoBuffers \ {e.buffer} }
ExternalResults(e) ==
    { Returned(o, result) : o \in ExternalOutcomes(e), result \in {"Ok", "Err"} }

\* The keys pressed: one for every action of the prompt, keys outside a prompt,
\* keys under an open menu or popup, chords and mode keybindings.
PlainKey(action) == Key(FALSE, FALSE, FALSE, FALSE, "Normal", None, NoMatch, action)
Keys ==
    { PlainKey(action) :
        action \in PromptActions \cup {"GotoLine", "InsertChar", "MoveLeft", "Back",
                                        "PromptPageUp", "Undo", "Save"} }
    \cup { Key(TRUE, FALSE, FALSE, FALSE, "Normal", None, NoMatch, "None"),
           Key(FALSE, TRUE, TRUE, FALSE, "Normal", None, NoMatch, "GotoLine"),
           Key(FALSE, TRUE, FALSE, TRUE, "Normal", None, NoMatch, "None"),
           Key(FALSE, FALSE, FALSE, FALSE, "Normal", None, Partial, "None"),
           Key(FALSE, FALSE, FALSE, FALSE, "Normal", None, Complete("PromptConfirm"), "None"),
           Key(FALSE, FALSE, FALSE, FALSE, "FileExplorer",
               Some(Command("revert-buffer", None)), NoMatch, "None"),
           Key(FALSE, FALSE, FALSE, FALSE, "Normal",
               Some(Command("close-buffer", None)), NoMatch, "None"),
           Key(FALSE, FALSE, FALSE, FALSE, "Normal",
               Some(Command("word-count", None)), NoMatch, "None"),
           Key(FALSE, FALSE, FALSE, FALSE, "Normal",
               Some(Command("goto-line", Some("GotoLine"))), NoMatch, "None") }

GotoIdle ==
    /\ editor = Editor(<<0>>, Some(1), 1, ViewPosition(None, None, None), None, None)
    /\ goto_call = None

\* The call of handle_goto_line that handle_action(action) leads to, with the
\* editor as handle_goto_line finds it and the result handed back; None when it
\* leads to none.
GotoCall(action, result) ==
    IF /\ action = "PromptConfirm"
       /\ editor.prompt # None
       /\ Unwrap(editor.prompt).prompt_type = "GotoLine"
    THEN Some([input |-> Unwrap(editor.prompt).input,
               before |-> confirm_prompt(editor),
               returned |-> result.returned])
    ELSE None

\* A handler has run: the editor is as it leaves it and the layout is the one of
\* its buffer.  A panic ends the program; the event log and the position history
\* are followed up to their bounds.
GotoStep(result, called) ==
    /\ result # Panic
    /\ Len(result.editor.event_log) <= MaxEvents
    /\ Len(result.editor.position_history) <= MaxHistory
    /\ editor' = result.editor
    /\ layout' = make_test_layout(result.editor.buffer)
    /\ goto_call' = called
    /\ UNCHANGED <<diffVars, viewport, cursor, prev, call, prev_viewport, resolved>>
    /\ UNCHANGED <<selVars, fileVars>>

\* What action_to_events answers on a movement: one MoveCursor event, which keeps
\* or starts a selection as the action says, or None.
MoveEvents(action) ==
    LET p == ViewPosition(Some(0), Some(1), Some(1))
    IN { None,
         Some(<<MoveCursor(editor.position, p, editor.anchor,
                           IF action \in SelectActions THEN Some(editor.position) ELSE None,
                           editor.sticky_column, Some(p.column))>>) }

\* What action_to_events answers on an edit: one edit event, or None.
EditEvents == { None, Some(<<Insert(<<"a">>, 0)>>) }

\* What position_history.back() or forward() answers: an entry, or None.
HistoryEntries ==
    {None} \cup { Some(editor.position_history[i]) : i \in 1..Len(editor.position_history) }

\* What action_to_events and the position history answer while handle_action runs
\* on an action.
ActionEvents(action) ==
    IF action \in MoveActions THEN MoveEvents(action)
    ELSE IF action \in EditActions THEN EditEvents
    ELSE {None}
ActionEntries(action) ==
    IF action \in {"Back", "Forward"} THEN HistoryEntries ELSE {None}

\* What handle_key gives on a key, with the call of handle_goto_line it made.
KeyStep(key, events, entry, external) ==
    LET result == handle_key(editor, layout, key, events, entry, external)
    IN <<result, IF result = Panic THEN None ELSE GotoCall(key_action(editor, key), result)>>

\* handle_key
HandleKey ==
    \E step \in UNION { { KeyStep(key, events, entry, external) :
                            events \in ActionEvents(key_action(editor, key)),
                            entry \in ActionEntries(key_action(editor, key)),
                            external \in (IF key_is_external(editor, key)
                                          THEN ExternalResults(editor) ELSE {Ok(editor)}) } :
                          key \in Keys } :
       GotoStep(step[1], step[2])

\* handle_action(PromptConfirm)
PromptConfirm ==
    LET result == handle_action(editor, layout, "PromptConfirm", None, None, Ok(editor))
    IN GotoStep(result, GotoCall("PromptConfirm", result))

\* handle_action(PromptClose)
PromptClose ==
    GotoStep(handle_action(editor, layout, "PromptClose", None, None, Ok(editor)), None)

\* handle_action(GotoLine)
StartGotoLine ==
    GotoStep(handle_action(editor, layout, "GotoLine", None, None, Ok(editor)), None)

\* handle_action on a movement.
MoveCursorAction ==
    \E result \in UNION { { handle_action(editor, layout, action, events, None, Ok(editor)) :
                              events \in MoveEvents(action) } :
                            action \in MoveActions } :
       GotoStep(result, None)

\* handle_action on an edit.
EditAction ==
    \E result \in { handle_action(editor, layout, action, events, None, Ok(editor)) :
                      action \in EditActions, events \in EditEvents } :
       GotoStep(result, None)

\* handle_action(Back) and handle_action(Forward).
BackForward ==
    \E result \in { handle_action(editor, layout, action, None, entry, Ok(editor)) :
                      action \in {"Back", "Forward"}, entry \in HistoryEntries } :
       GotoStep(result, None)

\* handle_action on an arm that calls an Editor method outside this file.
ExternalAction ==
    \E result \in
         { handle_action(editor, layout, action, None, None, Ok(o)) :
             action \in ExternalActions, o \in ExternalOutcomes(editor) }
         \cup
         { handle_action(editor, layout, action, None, None, external) :
             action \in FallibleActions, external \in ExternalResults(editor) } :
       GotoStep(result, None)

\* handle_action on an arm that leaves the editor held here alone.
OtherAction ==
    \E result \in { handle_action(editor, layout, action, None, None, Ok(editor)) :
                      action \in NoOpActions \cup UntrackedActions } :
       GotoStep(result, None)

\* The prompt input outside this file sets the text of the open prompt.
PromptInput ==
    /\ editor.prompt # None
    /\ \E p \in Typed(Unwrap(editor.prompt)) :
          GotoStep(Ok([editor EXCEPT !.prompt = Some(p)]), None)

(***************************************************************************)
(* app/file_open.rs: FileOpenState, and app/file_open_input.rs: the        *)
(* editor's handlers for the dialog.  A name is a sequence of              *)
(* one-character strings, a path the sequence of its components (the root  *)
(* "/" first when it is absolute), a modification time a natural number.   *)
(***************************************************************************)
MaxEntries == 2
LongLen == 16
visible_rows_default == 15
file_open_page_size == 10

FsMetadata(size, modified) == [size |-> size, modified |-> modified]
FsEntry(path, name, is_dir, metadata) ==
    [path |-> path, name |-> name, is_dir |-> is_dir, metadata |-> metadata]
FileOpenEntry(fs_entry, matches_filter) ==
    [fs_entry |-> fs_entry, matches_filter |-> matches_filter]
NavigationShortcut(label, path, description) ==
    [label |-> label, path |-> path, description |-> description]

\* str::cmp(a, b) = Less
RECURSIVE str_lt(_, _)
str_lt(a, b) ==
    IF b = <<>> THEN FALSE
    ELSE IF a = <<>> THEN TRUE
    ELSE IF Head(a) # Head(b) THEN char_rank(Head(a)) < char_rank(Head(b))
    ELSE str_lt(Tail(a), Tail(b))

\* Ord::cmp on strings and on integers, and Ordering::reverse.
cmp_str(a, b) == IF a = b THEN "Equal" ELSE IF str_lt(a, b) THEN "Less" ELSE "Greater"
cmp_int(a, b) == IF a = b THEN "Equal" ELSE IF a < b THEN "Less" ELSE "Greater"
ordering_reverse(ord) ==
    IF ord = "Less" THEN "Greater" ELSE IF ord = "Greater" THEN "Less" ELSE ord

str_contains(str, pat) ==
    \E i \in 0..(Len(str) - Len(pat)) : SubSeq(str, i + 1, i + Len(pat)) = pat

\* 1-based index of the last occurrence of c in str, 0 when there is none.
last_index_of(str, c) ==
    LET at == { i \in 1..Len(str) : str[i] = c }
    IN IF at = {} THEN 0 ELSE CHOOSE i \in at : \A j \in at : j <= i

\* The pieces of str between the separators.
RECURSIVE str_split(_, _, _)
str_split(str, sep, piece) ==
    IF str = <<>> THEN <<piece>>
    ELSE IF Head(str) = sep THEN <<piece>> \o str_split(Tail(str), sep, <<>>)
    ELSE str_split(Tail(str), sep, Append(piece, Head(str)))

\* Path::new(name).file_name(): the last component when it is a normal one.
\* Empty pieces and "." pieces are no components, but for a "." that begins a
\* relative path; "..", that "." and the root have no file name.
file_name(name) ==
    LET pieces == str_split(name, "/", <<>>)
        has_root == name # <<>> /\ Head(name) = "/"
        kept == { i \in 1..Len(pieces) :
                    /\ pieces[i] # <<>>
                    /\ (pieces[i] # <<".">> \/ (i = 1 /\ ~has_root)) }
        last == CHOOSE i \in kept : \A j \in kept : j <= i
    IN IF kept = {} THEN None
       ELSE IF pieces[last] = <<".">> \/ pieces[last] = <<".", ".">> THEN None
       ELSE Some(pieces[last])

\* Path::new(name).extension(): of the file name, the part after its last ".";
\* None without a "." and when only the first character is one.
extension(name) ==
    IF file_name(name) = None THEN None
    ELSE LET file == Unwrap(file_name(name))
             dot == last_index_of(file, ".")
         IN IF dot <= 1 THEN None
            ELSE Some(SubSeq(file, dot + 1, Len(file)))

\* PathBuf::parent
RootDir == << <<"/">> >>
path_parent(path) ==
    IF path = <<>> \/ path = RootDir THEN None
    ELSE Some(SubSeq(path, 1, Len(path) - 1))

is_hidden(name) == name # <<>> /\ Head(name) = "."

\* What dirs::home_dir, dirs::document_dir and dirs::download_dir answer.
Env(home_dir, document_dir, download_dir) ==
    [home_dir |-> home_dir, document_dir |-> document_dir, download_dir |-> download_dir]

optional_shortcut(path, label, description) ==
    IF path = None THEN <<>> ELSE <<NavigationShortcut(label, Unwrap(path), description)>>

\* build_shortcuts on a unix build: parent, root, home, documents, downloads.
build_shortcuts(current_dir, env) ==
    optional_shortcut(path_parent(current_dir), "..", "Parent directory")
    \o <<NavigationShortcut("/", RootDir, "Root directory")>>
    \o optional_shortcut(env.home_dir, "~", "Home directory")
    \o optional_shortcut(env.document_dir, "Documents", "Documents folder")
    \o optional_shortcut(env.download_dir, "Downloads", "Downloads folder")

FileOpenState_new(dir, env) ==
    [current_dir |-> dir, entries |-> <<>>, loading |-> TRUE, error |-> None,
     sort_mode |-> "Name", sort_ascending |-> TRUE,
     selected_index |-> 0, scroll_offset |-> 0, active_section |-> "Files",
     filter |-> <<>>, shortcuts |-> build_shortcuts(dir, env), selected_shortcut |-> 0,
     show_hidden |-> FALSE]

update_shortcuts(st, env) ==
    [st EXCEPT !.shortcuts = build_shortcuts(st.current_dir, env),
               !.selected_shortcut = 0]

apply_filter_internal(st) ==
    LET filter_lower == to_lowercase(st.filter)
    IN [st EXCEPT !.entries =
          [ i \in 1..Len(st.entries) |->
              [st.entries[i] EXCEPT !.matches_filter =
                  \/ st.filter = <<>>
                  \/ str_contains(to_lowercase(st.entries[i].fs_entry.name), filter_lower)] ]]

\* metadata.as_ref().and_then(|m| m.size).unwrap_or(0) and
\* metadata.as_ref().and_then(|m| m.modified)
entry_size(entry) ==
    IF entry.fs_entry.metadata = None THEN 0
    ELSE unwrap_or(Unwrap(entry.fs_entry.metadata).size, 0)
entry_modified(entry) ==
    IF entry.fs_entry.metadata = None THEN None
    ELSE Unwrap(entry.fs_entry.metadata).modified
entry_extension(entry) == to_lowercase(unwrap_or(extension(entry.fs_entry.name), <<>>))

\* The `match sort_mode` of the comparator.
sort_mode_cmp(sort_mode, a, b) ==
    IF sort_mode = "Name"
    THEN cmp_str(to_lowercase(a.fs_entry.name), to_lowercase(b.fs_entry.name))
    ELSE IF sort_mode = "Size" THEN cmp_int(entry_size(a), entry_size(b))
    ELSE IF sort_mode = "Modified"
    THEN (IF entry_modified(a) # None /\ entry_modified(b) # None
          THEN cmp_int(Unwrap(entry_modified(a)), Unwrap(entry_modified(b)))
          ELSE IF entry_modified(a) # None THEN "Less"
          ELSE IF entry_modified(b) # None THEN "Greater"
          ELSE "Equal")
    ELSE cmp_str(entry_extension(a), entry_extension(b))

\* The comparator of sort_entries: matching entries first, directories before
\* files, then the sort mode in the sort direction.
sort_cmp(st, a, b) ==
    IF a.matches_filter /\ ~b.matches_filter THEN "Less"
    ELSE IF ~a.matches_filter /\ b.matches_filter THEN "Greater"
    ELSE IF a.fs_entry.is_dir /\ ~b.fs_entry.is_dir THEN "Less"
    ELSE IF ~a.fs_entry.is_dir /\ b.fs_entry.is_dir THEN "Greater"
    ELSE IF st.sort_ascending THEN sort_mode_cmp(st.sort_mode, a, b)
    ELSE ordering_reverse(sort_mode_cmp(st.sort_mode, a, b))

sort_less(st, a, b) == sort_cmp(st, a, b) = "Less"

\* Vec::sort_by with the comparator of sort_entries.  The sort is stable: an
\* entry moves in front of the entries it is Less than and of no other.
sort_by(st, entries) == SortSeq(entries, LAMBDA a, b : sort_less(st, a, b))

sort_entries(st) == [st EXCEPT !.entries = sort_by(st, st.entries)]

set_sort_mode(st, mode) ==
    sort_entries(IF st.sort_mode = mode
                 THEN [st EXCEPT !.sort_ascending = ~@]
                 ELSE [st EXCEPT !.sort_mode = mode, !.sort_ascending = TRUE])

toggle_hidden(st) == [st EXCEPT !.show_hidden = ~@]

ensure_selected_visible(st) ==
    LET visible_rows == visible_rows_default
    IN IF st.selected_index < st.scroll_offset
       THEN [st EXCEPT !.scroll_offset = st.selected_index]
       ELSE IF st.selected_index >= st.scroll_offset + visible_rows
       THEN [st EXCEPT !.scroll_offset = saturating_sub(st.selected_index, visible_rows - 1)]
       ELSE st

\* With visible_rows = 0 the subtraction visible_rows - 1 overflows: a build with
\* overflow checks panics there, one without wraps to usize::MAX and the
\* saturating_sub gives 0.
update_scroll_for_visible_rows(st, visible_rows) ==
    IF st.selected_index < st.scroll_offset
    THEN { [st EXCEPT !.scroll_offset = st.selected_index] }
    ELSE IF st.selected_index >= st.scroll_offset + visible_rows
    THEN (IF visible_rows = 0
          THEN { Panic, [st EXCEPT !.scroll_offset = 0] }
          ELSE { [st EXCEPT !.scroll_offset =
                    saturating_sub(st.selected_index, visible_rows - 1)] })
    ELSE { st }

RECURSIVE keep_visible(_, _)
keep_visible(st, entries) ==
    IF entries = <<>> THEN <<>>
    ELSE IF st.show_hidden \/ ~is_hidden(Head(entries).name)
    THEN <<FileOpenEntry(Head(entries), TRUE)>> \o keep_visible(st, Tail(entries))
    ELSE keep_visible(st, Tail(entries))

set_entries(st, entries) ==
    LET loaded == [st EXCEPT !.entries = keep_visible(st, entries),
                             !.loading = FALSE, !.error = None]
    IN [sort_entries(apply_filter_internal(loaded))
          EXCEPT !.selected_index = 0, !.scroll_offset = 0]

set_error(st, error) ==
    [st EXCEPT !.loading = FALSE, !.error = Some(error), !.entries = <<>>]

\* Iterator::position: 0-based index of the first matching entry.
first_match(entries) ==
    LET matching == { i \in 1..Len(entries) : entries[i].matches_filter }
    IN IF matching = {} THEN None
       ELSE Some((CHOOSE i \in matching : \A j \in matching : i <= j) - 1)

\* entries[self.selected_index] panics when the index is outside a non-empty list.
apply_filter(st, filter) ==
    LET sorted == sort_entries(apply_filter_internal([st EXCEPT !.filter = filter]))
    IN IF sorted.entries = <<>> THEN sorted
       ELSE IF sorted.selected_index >= Len(sorted.entries) THEN Panic
       ELSE IF /\ ~sorted.entries[sorted.selected_index + 1].matches_filter
               /\ first_match(sorted.entries) # None
       THEN ensure_selected_visible(
              [sorted EXCEPT !.selected_index = Unwrap(first_match(sorted.entries))])
       ELSE sorted

select_prev(st) ==
    IF st.active_section = "Navigation"
    THEN (IF st.selected_shortcut > 0
          THEN [st EXCEPT !.selected_shortcut = @ - 1] ELSE st)
    ELSE (IF st.selected_index > 0
          THEN ensure_selected_visible([st EXCEPT !.selected_index = @ - 1]) ELSE st)

\* select_next without the test against entries.len().
select_next_unbounded(st) ==
    IF st.active_section = "Navigation"
    THEN (IF st.selected_shortcut + 1 < Len(st.shortcuts)
          THEN [st EXCEPT !.selected_shortcut = @ + 1] ELSE st)
    ELSE ensure_selected_visible([st EXCEPT !.selected_index = @ + 1])

select_next(st) ==
    IF st.active_section = "Navigation"
    THEN (IF st.selected_shortcut + 1 < Len(st.shortcuts)
          THEN [st EXCEPT !.selected_shortcut = @ + 1] ELSE st)
    ELSE (IF st.selected_index + 1 < Len(st.entries)
          THEN ensure_selected_visible([st EXCEPT !.selected_index = @ + 1]) ELSE st)

page_up(st, page_size) ==
    IF st.active_section = "Files"
    THEN ensure_selected_visible(
           [st EXCEPT !.selected_index = saturating_sub(@, page_size)])
    ELSE st

page_down(st, page_size) ==
    IF st.active_section = "Files"
    THEN ensure_selected_visible(
           [st EXCEPT !.selected_index =
              Min(@ + page_size, saturating_sub(Len(st.entries), 1))])
    ELSE st

select_first(st) ==
    IF st.active_section = "Navigation" THEN [st EXCEPT !.selected_shortcut = 0]
    ELSE [st EXCEPT !.selected_index = 0, !.scroll_offset = 0]

select_last(st) ==
    IF st.active_section = "Navigation"
    THEN [st EXCEPT !.selected_shortcut = saturating_sub(Len(st.shortcuts), 1)]
    ELSE ensure_selected_visible(
           [st EXCEPT !.selected_index = saturating_sub(Len(st.entries), 1)])

switch_section(st) ==
    [st EXCEPT !.active_section = IF @ = "Navigation" THEN "Files" ELSE "Navigation"]

\* Vec::get: Some(entry) inside the list, None outside.
selected_entry(st) ==
    IF st.active_section = "Files" /\ st.selected_index < Len(st.entries)
    THEN Some(st.entries[st.selected_index + 1]) ELSE None

selected_shortcut_entry(st) ==
    IF st.active_section = "Navigation" /\ st.selected_shortcut < Len(st.shortcuts)
    THEN Some(st.shortcuts[st.selected_shortcut + 1]) ELSE None

get_selected_path(st) ==
    IF st.active_section = "Navigation"
    THEN (IF st.selected_shortcut < Len(st.shortcuts)
          THEN Some(st.shortcuts[st.selected_shortcut + 1].path) ELSE None)
    ELSE (IF st.selected_index < Len(st.entries)
          THEN Some(st.entries[st.selected_index + 1].fs_entry.path) ELSE None)

selected_is_dir(st) ==
    IF st.active_section = "Navigation" THEN TRUE
    ELSE IF st.selected_index < Len(st.entries)
    THEN st.entries[st.selected_index + 1].fs_entry.is_dir
    ELSE FALSE

matching_count(st) == Cardinality({ i \in 1..Len(st.entries) : st.entries[i].matches_filter })

\* visible_entries: the slice entries[start..end], or "panic" when start > end.
visible_entries(st, max_rows) ==
    LET start == st.scroll_offset
        end == Min(start + max_rows, Len(st.entries))
    IN IF start > end THEN "panic" ELSE Slice(st.entries, start, end)

(***************************************************************************)
(* app/file_open_input.rs.  The editor is given by the fields the handlers *)
(* touch: the prompt, file_open_state and the status message.  A handler   *)
(* that answers whether it handled the input gives [editor, handled].      *)
(***************************************************************************)
FileEditor(prompt, file_open_state, status_message) ==
    [prompt |-> prompt, file_open_state |-> file_open_state,
     status_message |-> status_message]
Handled(ed, handled) == [editor |-> ed, handled |-> handled]

is_file_open_active(ed) ==
    /\ ed.prompt # None
    /\ Unwrap(ed.prompt).prompt_type = "OpenFile"
    /\ ed.file_open_state # None

\* Editor::load_file_open_directory: the dialog turns to the directory and waits
\* for its listing, which set_entries or set_error delivers later.
load_file_open_directory(ed, path, env) ==
    IF ed.file_open_state = None THEN ed
    ELSE [ed EXCEPT !.file_open_state =
            Some(update_shortcuts([Unwrap(@) EXCEPT !.current_dir = path,
                                                    !.loading = TRUE,
                                                    !.error = None], env))]

file_open_navigate_to(ed, path, env) ==
    load_file_open_directory(
        IF ed.prompt # None
        THEN [ed EXCEPT !.prompt = Some([Unwrap(@) EXCEPT !.input = <<>>, !.cursor_pos = 0])]
        ELSE ed,
        path, env)

\* open_file answers Ok or an error.
file_open_open_file(ed, path, opened) ==
    [ed EXCEPT !.file_open_state = None, !.prompt = None,
               !.status_message =
                  IF opened = "Ok" THEN Some(<<"Opened ", path>>)
                  ELSE Some(<<"Error opening file: ", opened>>)]

file_open_confirm(ed, env, opened) ==
    IF ed.file_open_state = None THEN ed
    ELSE LET state == Unwrap(ed.file_open_state)
         IN IF get_selected_path(state) = None THEN ed
            ELSE IF selected_is_dir(state)
            THEN file_open_navigate_to(ed, Unwrap(get_selected_path(state)), env)
            ELSE file_open_open_file(ed, Unwrap(get_selected_path(state)), opened)

file_open_go_parent(ed, env) ==
    LET parent == IF ed.file_open_state = None THEN None
                  ELSE path_parent(Unwrap(ed.file_open_state).current_dir)
    IN IF parent # None THEN file_open_navigate_to(ed, Unwrap(parent), env) ELSE ed

\* The FileOpenState method an action of the dialog calls.
file_open_method(state, action) ==
    CASE action = "PromptSelectPrev" -> select_prev(state)
      [] action = "PromptSelectNext" -> select_next(state)
      [] action = "PromptPageUp" -> page_up(state, file_open_page_size)
      [] action = "PromptPageDown" -> page_down(state, file_open_page_size)
      [] action = "PromptMoveStart" -> select_first(state)
      [] action = "PromptMoveEnd" -> select_last(state)
      [] action = "PromptAcceptSuggestion" -> switch_section(state)

FileOpenMethodActions ==
    { "PromptSelectPrev", "PromptSelectNext", "PromptPageUp", "PromptPageDown",
      "PromptMoveStart", "PromptMoveEnd", "PromptAcceptSuggestion" }

handle_file_open_action(ed, action, env, opened) ==
    IF ~is_file_open_active(ed) THEN Handled(ed, FALSE)
    ELSE IF action \in FileOpenMethodActions
    THEN Handled([ed EXCEPT !.file_open_state = Some(file_open_method(Unwrap(@), action))],
                 TRUE)
    ELSE IF action = "PromptConfirm" THEN Handled(file_open_confirm(ed, env, opened), TRUE)
    ELSE IF action = "PromptBackspace"
    THEN (IF /\ Unwrap(ed.file_open_state).filter = <<>>
             /\ Unwrap(ed.prompt).input = <<>>
          THEN Handled(file_open_go_parent(ed, env), TRUE)
          ELSE Handled(ed, FALSE))
    ELSE IF action = "PromptCancel"
    THEN Handled([cancel_prompt(ed) EXCEPT !.file_open_state = None], TRUE)
    ELSE Handled(ed, FALSE)

\* update_file_open_filter; Panic when apply_filter panics.
update_file_open_filter(ed) ==
    IF ~is_file_open_active(ed) THEN ed
    ELSE LET filtered == apply_filter(Unwrap(ed.file_open_state), Unwrap(ed.prompt).input)
         IN IF filtered = Panic THEN Panic
            ELSE [ed EXCEPT !.file_open_state = Some(filtered)]

file_open_toggle_sort(ed, mode) ==
    IF ed.file_open_state = None THEN ed
    ELSE [ed EXCEPT !.file_open_state = Some(set_sort_mode(Unwrap(@), mode))]

file_open_toggle_hidden(ed, env) ==
    IF ed.file_open_state = None THEN ed
    ELSE load_file_open_directory(
           [ed EXCEPT !.file_open_state = Some([Unwrap(@) EXCEPT !.show_hidden = ~@])],
           Unwrap(ed.file_open_state).current_dir, env)

\* Where file_browser_layout places a click: the region, the entry click_to_index
\* gives in the list, the column header_column_at gives in the header.
Click(region, index, column) == [region |-> region, index |-> index, column |-> column]

\* handle_file_open_click; click is None while the editor has no
\* file_browser_layout.
handle_file_open_click(ed, click) ==
    IF ~is_file_open_active(ed) \/ click = None THEN Handled(ed, FALSE)
    ELSE LET c == Unwrap(click)
             state == Unwrap(ed.file_open_state)
         IN IF c.region = "list"
            THEN Handled(
                   IF c.index = None THEN ed
                   ELSE [ed EXCEPT !.file_open_state =
                           Some([state EXCEPT
                                   !.active_section = "Files",
                                   !.selected_index =
                                      IF Unwrap(c.index) < Len(state.entries)
                                      THEN Unwrap(c.index) ELSE @])],
                   TRUE)
            ELSE IF c.region = "nav"
            THEN Handled([ed EXCEPT !.file_open_state =
                            Some([state EXCEPT !.active_section = "Navigation"])], TRUE)
            ELSE IF c.region = "header"
            THEN Handled(IF c.column # None
                         THEN file_open_toggle_sort(ed, Unwrap(c.column)) ELSE ed, TRUE)
            ELSE IF c.region = "scrollbar" THEN Handled(ed, TRUE)
            ELSE Handled(ed, FALSE)

handle_file_open_double_click(ed, click, env, opened) ==
    IF ~is_file_open_active(ed) \/ click = None THEN Handled(ed, FALSE)
    ELSE IF Unwrap(click).region = "list"
    THEN Handled(file_open_confirm(ed, env, opened), TRUE)
    ELSE Handled(ed, FALSE)

\* The directory the dialog is opened on, the root, and the answers of the dirs
\* crate, none where no home directory is known.
Dirs == { RootDir }
Envs == { Env(None, None, None) }
SortModes == { "Name", "Size", "Modified", "Type" }

\* The directory listings handed to set_entries: short ones over a few entries
\* that every sort mode tells apart, and one longer than the default number of
\* visible rows, of names that differ in the case of their letters only.
RootEntry(name, is_dir, metadata) == FsEntry(Append(RootDir, name), name, is_dir, metadata)
FsEntryPool ==
    { RootEntry(<<".", "a">>, FALSE, None),
      RootEntry(<<"a", ".", "b">>, FALSE, Some(FsMetadata(Some(2), Some(1)))),
      RootEntry(<<"B">>, TRUE, None) }
LongName(i) ==
    [ k \in 1..5 |-> IF ((i - 1) \div (2 ^ (k - 1))) % 2 = 1 THEN Upper[k] ELSE Lower[k] ]
LongListing == [ i \in 1..LongLen |-> RootEntry(LongName(i), FALSE, None) ]
Listings ==
    { l \in SeqsUpTo(FsEntryPool, MaxEntries) :
        \A i \in 1..Len(l) : \A j \in 1..Len(l) : l[i] = l[j] => i = j }
    \cup { LongListing }
Filters == { <<>>, <<"B">> }

\* The prompt the editor holds beside the dialog: none, or the Open File prompt
\* with the filter typed so far.
FilePrompts ==
    {None} \cup { Some(Prompt(filter, "OpenFile", str_len(filter), None)) : filter \in Filters }

\* The rows the renderer has for the list, none or the default number, and the
\* page sizes: one row, or the page of the dialog's own key handler.
VisibleRows == { 0, visible_rows_default }
PageSizes == { 1, file_open_page_size }

\* The clicks: none while there is no layout, the first and the last row of the
\* list and the row below it, the other regions of the popup.
Clicks ==
    {None}
    \cup { Some(Click("list", index, None)) :
             index \in {None} \cup
                 (IF file_open = None THEN {}
                  ELSE { Some(i) : i \in {0, Len(Unwrap(file_open).entries) - 1,
                                          Len(Unwrap(file_open).entries)} \cap Nat }) }
    \cup { Some(Click("nav", None, None)), Some(Click("header", None, None)),
           Some(Click("header", None, Some("Size"))),
           Some(Click("scrollbar", None, None)), Some(Click("outside", None, None)) }

\* The double clicks: none while there is no layout, one in the list, one outside.
DoubleClicks == { None, Some(Click("list", None, None)), Some(Click("nav", None, None)) }

\* The call is select_next at the last entry or select_prev at the first one.
AtEdge(op) ==
    /\ file_open # None
    /\ Unwrap(file_open).active_section = "Files"
    /\ Len(Unwrap(file_open).entries) >= 1
    /\ \/ op = "select_next"
          /\ Unwrap(file_open).selected_index = Len(Unwrap(file_open).entries) - 1
       \/ op = "select_prev" /\ Unwrap(file_open).selected_index = 0

FileCall(op) ==
    IF AtEdge(op) THEN [op |-> op, selected_index |-> Unwrap(file_open).selected_index]
    ELSE [op |-> "other", selected_index |-> 0]

\* A call of a method of the FileOpenState the editor holds.
FileStep(op, result) ==
    /\ result # Panic
    /\ file_open' = Some(result)
    /\ file_call' = FileCall(op)
    /\ UNCHANGED <<diffVars, navVars, selVars, gotoVars, file_editor>>

FileState == Unwrap(file_open)

UpdateShortcuts ==
    /\ file_open # None
    /\ \E env \in Envs : FileStep("update_shortcuts", update_shortcuts(FileState, env))
SetEntries ==
    /\ file_open # None
    /\ \E entries \in Listings : FileStep("set_entries", set_entries(FileState, entries))
SetError == file_open # None /\ FileStep("set_error", set_error(FileState, "read error"))
ApplyFilter ==
    /\ file_open # None
    /\ \E filter \in Filters : FileStep("apply_filter", apply_filter(FileState, filter))
SetSortMode ==
    /\ file_open # None
    /\ \E mode \in SortModes : FileStep("set_sort_mode", set_sort_mode(FileState, mode))
ToggleHidden == file_open # None /\ FileStep("toggle_hidden", toggle_hidden(FileState))
SelectPrev == file_open # None /\ FileStep("select_prev", select_prev(FileState))
SelectNext == file_open # None /\ FileStep("select_next", select_next(FileState))
PageUp ==
    /\ file_open # None
    /\ \E n \in PageSizes : FileStep("page_up", page_up(FileState, n))
PageDown ==
    /\ file_open # None
    /\ \E n \in PageSizes : FileStep("page_down", page_down(FileState, n))
SelectFirst == file_open # None /\ FileStep("select_first", select_first(FileState))
SelectLast == file_open # None /\ FileStep("select_last", select_last(FileState))
UpdateScrollForVisibleRows ==
    /\ file_open # None
    /\ \E rows \in VisibleRows :
        \E result \in update_scroll_for_visible_rows(FileState, rows) :
            FileStep("update_scroll_for_visible_rows", result)
SwitchSection == file_open # None /\ FileStep("switch_section", switch_section(FileState))

\* The editor of the handlers, and a call of one of them.
TheFileEditor == FileEditor(file_editor.prompt, file_open, file_editor.status_message)

EditorStep(op, ed) ==
    /\ ed # Panic
    /\ file_open' = ed.file_open_state
    /\ file_editor' = [prompt |-> ed.prompt, status_message |-> ed.status_message]
    /\ file_call' = FileCall(op)
    /\ UNCHANGED <<diffVars, navVars, selVars, gotoVars>>

\* The method of FileOpenState the action calls when the dialog is active.
MethodOf(action) ==
    IF ~is_file_open_active(TheFileEditor) THEN "other"
    ELSE IF action = "PromptSelectNext" THEN "select_next"
    ELSE IF action = "PromptSelectPrev" THEN "select_prev"
    ELSE "other"

\* What open_file answers when the handler gets to open a file.
OpenResults == { "Ok", "not found" }
OpenResultsOf(confirms) ==
    IF /\ confirms
       /\ is_file_open_active(TheFileEditor)
       /\ get_selected_path(FileState) # None
       /\ ~selected_is_dir(FileState)
    THEN OpenResults ELSE { "Ok" }

HandleFileOpenAction ==
    \E action \in FileOpenMethodActions \cup
                  {"PromptConfirm", "PromptBackspace", "PromptCancel", "PromptDelete"} :
    \E env \in Envs : \E opened \in OpenResultsOf(action = "PromptConfirm") :
        EditorStep(MethodOf(action),
                   handle_file_open_action(TheFileEditor, action, env, opened).editor)

UpdateFileOpenFilter == EditorStep("update_file_open_filter", update_file_open_filter(TheFileEditor))

FileOpenToggleSort ==
    \E mode \in SortModes :
        EditorStep("file_open_toggle_sort", file_open_toggle_sort(TheFileEditor, mode))

FileOpenToggleHidden ==
    \E env \in Envs :
        EditorStep("file_open_toggle_hidden", file_open_toggle_hidden(TheFileEditor, env))

HandleFileOpenClick ==
    \E click \in Clicks :
        EditorStep("handle_file_open_click", handle_file_open_click(TheFileEditor, click).editor)

HandleFileOpenDoubleClick ==
    \E click \in DoubleClicks : \E env \in Envs :
    \E opened \in OpenResultsOf(click # None /\ Unwrap(click).region = "list") :
        EditorStep("handle_file_open_double_click",
                   handle_file_open_double_click(TheFileEditor, click, env, opened).editor)

FileIdle ==
    /\ file_open = None
    /\ file_editor = [prompt |-> None, status_message |-> None]
    /\ file_call = [op |-> "new", selected_index |-> 0]

UiIdle == SelIdle /\ GotoIdle /\ FileIdle


NoCall == Call("none", None, 0)
NoCursor == ViewPosition(None, None, None)

InitDiff ==
    /\ before \in Trees
    /\ after = before
    /\ diff = None
    /\ locals = None
    /\ edit = None
    /\ layout = Layout(<<>>)
    /\ viewport = Viewport(0, 0, 80, 0)
    /\ cursor = NoCursor
    /\ prev = NoCursor
    /\ call = NoCall
    /\ prev_viewport = None
    /\ resolved = None
    /\ UiIdle

NextDiff == DiffAgainst \/ DiffAfterEdit

SpecDiff == InitDiff /\ [][NextDiff]_vars

InitShape ==
    /\ before \in ShapedTrees
    /\ after = before
    /\ diff = None
    /\ locals = None
    /\ edit = None
    /\ layout = Layout(<<>>)
    /\ viewport = Viewport(0, 0, 80, 0)
    /\ cursor = NoCursor
    /\ prev = NoCursor
    /\ call = NoCall
    /\ prev_viewport = None
    /\ resolved = None
    /\ UiIdle

NextShape == DiffShaped

SpecShape == InitShape /\ [][NextShape]_vars

InitNav ==
    /\ before = build(<<>>)
    /\ after = before
    /\ diff = None
    /\ locals = None
    /\ edit = None
    /\ layout \in Layouts
    /\ viewport \in Viewports
    /\ cursor \in Cursors
    /\ prev = cursor
    /\ call = NoCall
    /\ prev_viewport = None
    /\ resolved = None
    /\ UiIdle

NextNav == MoveVertical \/ MoveHorizontal \/ MoveLineStart \/ MoveLineEnd \/ MovePage

SpecNav == InitNav /\ [][NextNav]_vars

InitScroll ==
    /\ before = build(<<>>)
    /\ after = before
    /\ diff = None
    /\ locals = None
    /\ edit = None
    /\ layout \in Layouts
    /\ viewport \in ScrollViewports
    /\ cursor = NoCursor
    /\ prev = NoCursor
    /\ call = NoCall
    /\ prev_viewport = None
    /\ resolved = None
    /\ UiIdle

NextScroll == ScrollView

SpecScroll == InitScroll /\ [][NextScroll]_vars

InitMap ==
    /\ before = build(<<>>)
    /\ after = before
    /\ diff = None
    /\ locals = None
    /\ edit = None
    /\ layout \in Layouts
    /\ viewport = Viewport(0, 0, 80, 0)
    /\ cursor \in Cursors
    /\ prev = cursor
    /\ call = NoCall
    /\ prev_viewport = None
    /\ resolved = None
    /\ UiIdle

NextMap == SourceToViewPos \/ ViewPosToSource \/ ViewRangeToBufferRange

SpecMap == InitMap /\ [][NextMap]_vars

InitSel ==
    /\ before = build(<<>>)
    /\ after = before
    /\ diff = None
    /\ locals = None
    /\ edit = None
    /\ layout = Layout(<<>>)
    /\ viewport = Viewport(0, 0, 80, 0)
    /\ cursor = NoCursor
    /\ prev = NoCursor
    /\ call = NoCall
    /\ prev_viewport = None
    /\ resolved = None
    /\ selection \in Selections
    /\ sel_given = None
    /\ GotoIdle
    /\ FileIdle

NextSel == Normalized

SpecSel == InitSel /\ [][NextSel]_vars

InitGoto ==
    /\ before = build(<<>>)
    /\ after = before
    /\ diff = None
    /\ locals = None
    /\ edit = None
    /\ viewport = Viewport(0, 0, 80, 0)
    /\ cursor = NoCursor
    /\ prev = NoCursor
    /\ call = NoCall
    /\ prev_viewport = None
    /\ resolved = None
    /\ SelIdle
    /\ \E e \in GotoEditors :
        /\ editor = e
        /\ layout = make_test_layout(e.buffer)
    /\ goto_call = None
    /\ FileIdle

NextGoto ==
    \/ HandleKey \/ PromptConfirm \/ PromptClose \/ StartGotoLine
    \/ MoveCursorAction \/ EditAction \/ BackForward \/ ExternalAction
    \/ OtherAction \/ PromptInput

SpecGoto == InitGoto /\ [][NextGoto]_vars

InitFile ==
    /\ before = build(<<>>)
    /\ after = before
    /\ diff = None
    /\ locals = None
    /\ edit = None
    /\ layout = Layout(<<>>)
    /\ viewport = Viewport(0, 0, 80, 0)
    /\ cursor = NoCursor
    /\ prev = NoCursor
    /\ call = NoCall
    /\ prev_viewport = None
    /\ resolved = None
    /\ SelIdle
    /\ GotoIdle
    /\ \E dir \in Dirs : \E env \in Envs : file_open = Some(FileOpenState_new(dir, env))
    /\ \E prompt \in FilePrompts \ {None} :
          file_editor = [prompt |-> prompt, status_message |-> None]
    /\ file_call = [op |-> "new", selected_index |-> 0]

NextFile ==
    \/ UpdateShortcuts \/ SetEntries \/ SetError \/ ApplyFilter
    \/ SetSortMode \/ ToggleHidden
    \/ SelectPrev \/ SelectNext \/ PageUp \/ PageDown \/ SelectFirst \/ SelectLast
    \/ UpdateScrollForVisibleRows \/ SwitchSection
    \/ HandleFileOpenAction \/ UpdateFileOpenFilter \/ FileOpenToggleSort
    \/ FileOpenToggleHidden \/ HandleFileOpenClick \/ HandleFileOpenDoubleClick

SpecFile == InitFile /\ [][NextFile]_vars

Init == InitDiff
Next == NextDiff
Spec == SpecDiff

(***************************************************************************)
(* Properties of the differ.                                               *)
(***************************************************************************)
BeforeLeaves == collect_leaves(before)
AfterLeaves == collect_leaves(after)
Result == Unwrap(diff)
Differed == diff # None /\ ~Result.equal

\* The (location, backing-buffer offset) behind every byte of a leaf sequence.
RECURSIVE Backing(_)
Backing(leaves) ==
    IF leaves = <<>> THEN <<>>
    ELSE LET l == Head(leaves)
         IN [ t \in 1..l.bytes |-> <<l.location, l.offset + t - 1>> ] \o Backing(Tail(leaves))

SameSpan(a, b) == a.location = b.location /\ a.offset = b.offset /\ a.bytes = b.bytes

SameSpans(a, b) ==
    Len(a) = Len(b) /\ \A n \in 1..Len(a) : SameSpan(a[n], b[n])

\* The number of leading leaves on which two sequences agree, stated directly.
LongestCommonPrefix(b, a) ==
    CHOOSE n \in 0..Min(Len(b), Len(a)) :
        /\ \A m \in 1..n : SameSpan(b[m], a[m])
        /\ n = Min(Len(b), Len(a)) \/ ~SameSpan(b[n + 1], a[n + 1])

\* The number of trailing leaves on which they agree, not reaching into the prefix.
LongestCommonSuffix(b, a, p) ==
    CHOOSE n \in 0..(Min(Len(b), Len(a)) - p) :
        /\ \A m \in 0..(n - 1) : SameSpan(b[Len(b) - m], a[Len(a) - m])
        /\ n = Min(Len(b), Len(a)) - p \/ ~SameSpan(b[Len(b) - n], a[Len(a) - n])

PrefixOfAfter == Slice(AfterLeaves, 0, LongestCommonPrefix(BeforeLeaves, AfterLeaves))
ChangedOfAfter ==
    LET p == LongestCommonPrefix(BeforeLeaves, AfterLeaves)
    IN Slice(AfterLeaves, p, Len(AfterLeaves) - LongestCommonSuffix(BeforeLeaves, AfterLeaves, p))

HasUnknown(leaves) == \E n \in 1..Len(leaves) : leaves[n].line_feed_cnt = None

RECURSIVE KnownLineFeeds(_)
KnownLineFeeds(leaves) ==
    IF leaves = <<>> THEN 0
    ELSE Unwrap(Head(leaves).line_feed_cnt) + KnownLineFeeds(Tail(leaves))

\* C1: every byte of the after document before byte_range.start has the same
\* (location, backing offset) as the byte at the same offset of before, and every
\* byte at or after byte_range.end the same as the byte of before at the same
\* distance from the end of the document.
C1_OutsideRangeSameBacking ==
    diff # None =>
        LET r == Result.byte_range
            b == Backing(BeforeLeaves)
            a == Backing(AfterLeaves)
        IN /\ \A o \in 0..(Len(a) - 1) :
                o < r.start => o < Len(b) /\ a[o + 1] = b[o + 1]
           /\ \A o \in 0..(Len(a) - 1) :
                o >= r.end => Len(a) - o <= Len(b) /\ a[o + 1] = b[Len(b) - (Len(a) - o) + 1]

C1_Witness ==
    /\ Differed
    /\ Result.byte_range.start > 0
    /\ Result.byte_range.end > Result.byte_range.start
    /\ Result.byte_range.end < sum_bytes(AfterLeaves)

\* C2: a tree diffed against itself, whatever its leaves and their line_feed_cnt,
\* gives equal = true, byte_range = 0..0 and line_range = Some(0..0).
C2_DiffIdentity ==
    (diff # None /\ after = before) =>
        Result = PieceTreeDiff(TRUE, Range(0, 0), Some(Range(0, 0)))

C2_Witness ==
    /\ diff # None
    /\ after = before
    /\ Len(AfterLeaves) >= 2
    /\ HasUnknown(AfterLeaves)

\* C3: after one contiguous byte edit replacing [i, j) by k bytes, byte_range lies
\* within the edited span [i, i + k) of the after document.
C3_DiffLocality ==
    (diff # None /\ edit # None) =>
        LET e == Unwrap(edit)
            r == Result.byte_range
        IN e.i <= r.start /\ r.end <= e.i + e.k

IsStrictPrefix(a, b) ==
    Len(a) < Len(b) /\ \A n \in 1..Len(a) : SameSpan(a[n], b[n])

\* C4 as stated: when the after leaves are a strict prefix of the before leaves the
\* diff is unequal, byte_range is empty at the total bytes of after, and line_range
\* is one line starting at the newline count of the surviving leaves.
C4_DeletionAnchorAlways ==
    (diff # None /\ IsStrictPrefix(AfterLeaves, BeforeLeaves)) =>
        /\ ~Result.equal
        /\ Result.byte_range = Range(sum_bytes(AfterLeaves), sum_bytes(AfterLeaves))
        /\ Result.line_range # None
        /\ ~HasUnknown(AfterLeaves)
        /\ Unwrap(Result.line_range) =
              Range(KnownLineFeeds(AfterLeaves), KnownLineFeeds(AfterLeaves) + 1)

\* C4 amended: as C4, with the one-line line_range when every surviving leaf has a
\* known line_feed_cnt, and line_range = None when one of them is unknown.
C4_DeletionAnchor ==
    (diff # None /\ IsStrictPrefix(AfterLeaves, BeforeLeaves)) =>
        /\ ~Result.equal
        /\ Result.byte_range = Range(sum_bytes(AfterLeaves), sum_bytes(AfterLeaves))
        /\ IF HasUnknown(AfterLeaves)
           THEN Result.line_range = None
           ELSE Result.line_range =
                  Some(Range(KnownLineFeeds(AfterLeaves), KnownLineFeeds(AfterLeaves) + 1))

C4_Witness ==
    /\ diff # None
    /\ IsStrictPrefix(AfterLeaves, BeforeLeaves)
    /\ ~HasUnknown(AfterLeaves)
    /\ Len(AfterLeaves) = 2
    /\ Result.line_range = Some(Range(1, 2))

\* C5: for unequal trees line_range is None whenever a leaf of the common prefix
\* of after has an unknown line_feed_cnt, or the changed span is non-empty and
\* holds a leaf with an unknown line_feed_cnt.
C5_UnknownGivesNone ==
    Differed =>
        ((HasUnknown(PrefixOfAfter) \/ HasUnknown(ChangedOfAfter))
            => Result.line_range = None)

C5_Witness ==
    /\ Differed
    /\ PrefixOfAfter # <<>>
    /\ ~HasUnknown(PrefixOfAfter)
    /\ HasUnknown(ChangedOfAfter)
    /\ Result.line_range = None

\* C6: for unequal trees whose prefix and changed span of after have only known
\* counts, line_range = Some(lines_before .. lines_before + lines_in_changed), with
\* lines_in_changed = 1 for an empty changed span and its newline sum + 1 otherwise.
C6_KnownLineRange ==
    (Differed /\ ~HasUnknown(PrefixOfAfter) /\ ~HasUnknown(ChangedOfAfter)) =>
        LET lines_before == KnownLineFeeds(PrefixOfAfter)
            lines_in_changed == IF ChangedOfAfter = <<>> THEN 1
                                ELSE KnownLineFeeds(ChangedOfAfter) + 1
        IN Result.line_range = Some(Range(lines_before, lines_before + lines_in_changed))

C6_Witness ==
    /\ Differed
    /\ PrefixOfAfter # <<>>
    /\ ChangedOfAfter # <<>>
    /\ ~HasUnknown(PrefixOfAfter)
    /\ ~HasUnknown(ChangedOfAfter)
    /\ KnownLineFeeds(PrefixOfAfter) = 1
    /\ KnownLineFeeds(ChangedOfAfter) = 1
    /\ Result.line_range = Some(Range(1, 3))

\* C7: equal = true exactly when the leaf sequences have the same length and agree
\* pairwise on location, offset and bytes (line_feed_cnt is not compared); one leaf
\* (Stored, 0, n, Some(k)) against one leaf (Added, 0, n, Some(k)) gives
\* equal = false, byte_range = 0..n, line_range = Some(0..k+1).
StoredVersusAdded ==
    /\ Len(BeforeLeaves) = 1
    /\ Len(AfterLeaves) = 1
    /\ BeforeLeaves[1].location = Stored0
    /\ AfterLeaves[1].location = Added1
    /\ BeforeLeaves[1].offset = 0
    /\ AfterLeaves[1].offset = 0
    /\ BeforeLeaves[1].bytes = AfterLeaves[1].bytes
    /\ BeforeLeaves[1].line_feed_cnt # None
    /\ BeforeLeaves[1].line_feed_cnt = AfterLeaves[1].line_feed_cnt

C7_EqualIffSameSpans ==
    diff # None =>
        /\ Result.equal <=> SameSpans(BeforeLeaves, AfterLeaves)
        /\ StoredVersusAdded =>
             Result = PieceTreeDiff(FALSE, Range(0, AfterLeaves[1].bytes),
                        Some(Range(0, Unwrap(AfterLeaves[1].line_feed_cnt) + 1)))

C7_Witness ==
    /\ diff # None
    /\ StoredVersusAdded
    /\ AfterLeaves[1].bytes = 1
    /\ Result = PieceTreeDiff(FALSE, Range(0, 1), Some(Range(0, 1)))

\* C8: for before = P ++ [B] ++ S and after = P ++ [X] ++ S with B and X unequal,
\* the prefix is |P| leaves, the suffix |S| leaves, and
\* byte_range = bytes(P) .. bytes(P) + bytes(X).
OneLeafReplacedAt(n) ==
    /\ Len(BeforeLeaves) = Len(AfterLeaves)
    /\ n \in 1..Len(AfterLeaves)
    /\ ~SameSpan(BeforeLeaves[n], AfterLeaves[n])
    /\ \A m \in 1..Len(AfterLeaves) : m # n => SameSpan(BeforeLeaves[m], AfterLeaves[m])

C8_SingleLeafReplaced ==
    diff # None =>
        \A n \in 1..Len(AfterLeaves) :
            OneLeafReplacedAt(n) =>
                /\ locals = Some([prefix |-> n - 1, suffix |-> Len(AfterLeaves) - n])
                /\ Result.byte_range =
                     Range(sum_bytes(Slice(AfterLeaves, 0, n - 1)),
                           sum_bytes(Slice(AfterLeaves, 0, n - 1)) + AfterLeaves[n].bytes)

C8_Witness ==
    /\ diff # None
    /\ Len(AfterLeaves) = 3
    /\ OneLeafReplacedAt(2)
    /\ locals = Some([prefix |-> 1, suffix |-> 1])

(***************************************************************************)
(* Properties of the navigation functions.                                 *)
(***************************************************************************)
LastLine == Len(layout.lines) - 1

\* C9: move_vertical, move_horizontal, move_line_start, move_line_end and
\* move_page return a cursor whose view_line is None unchanged in all three
\* fields.
C9_UnresolvedUnchanged ==
    (call.op # "none" /\ prev.view_line = None) => cursor = prev

C9_Witness ==
    /\ call.op = "move_page"
    /\ call.direction # 0
    /\ visible_line_count(viewport) = 2
    /\ Len(layout.lines) = 3
    /\ prev.view_line = None
    /\ prev.column = Some(1)
    /\ prev.source_byte = Some(2)
    /\ cursor = prev

\* C10 as stated: for a resolved input view_line, move_vertical returns a
\* view_line inside [0, lines.len()-1], equal to
\* clamp(current_line + direction, 0, lines.len()-1).
C10_VerticalInRangeAlways ==
    (call.op = "move_vertical" /\ prev.view_line # None) =>
        /\ cursor.view_line # None
        /\ Unwrap(cursor.view_line) \in 0..LastLine
        /\ Unwrap(cursor.view_line) =
             Min(Max(Unwrap(prev.view_line) + call.direction, 0), LastLine)

\* C10 amended: the same for a layout with at least one line; for a layout with
\* no lines move_vertical returns view_line 0.
C10_VerticalInRange ==
    (call.op = "move_vertical" /\ prev.view_line # None) =>
        /\ cursor.view_line # None
        /\ IF Len(layout.lines) >= 1
           THEN /\ Unwrap(cursor.view_line) \in 0..LastLine
                /\ Unwrap(cursor.view_line) =
                     Min(Max(Unwrap(prev.view_line) + call.direction, 0), LastLine)
           ELSE Unwrap(cursor.view_line) = 0

C10_Witness ==
    /\ call.op = "move_vertical"
    /\ Len(layout.lines) = 3
    /\ prev.view_line = Some(3)
    /\ call.direction = 2
    /\ cursor.view_line = Some(2)

\* What the last navigation call was given, and the line it resolves to:
\* min(current_line, lines.len().saturating_sub(1)).
PrevLine == Unwrap(prev.view_line)
PrevCol == IF prev.column = None THEN 0 ELSE Unwrap(prev.column)
ClampedLine == Min(PrevLine, Max(LastLine, 0))
SlotsOfLine(idx) == IF idx < Len(layout.lines) THEN Len(layout.lines[idx + 1].char_mappings) ELSE 0
HorizontalCall == call.op = "move_horizontal" /\ prev.view_line # None

\* C11 as stated: for a resolved input view_line, move_horizontal returns a
\* view_line below lines.len().
C11_HorizontalInRangeAlways ==
    HorizontalCall =>
        /\ cursor.view_line # None
        /\ Unwrap(cursor.view_line) < Len(layout.lines)

\* C11 amended: the same for a layout with at least one line; for a layout with
\* no lines move_horizontal returns view_line 0.
C11_HorizontalInRange ==
    HorizontalCall =>
        /\ cursor.view_line # None
        /\ IF Len(layout.lines) >= 1
           THEN Unwrap(cursor.view_line) < Len(layout.lines)
           ELSE Unwrap(cursor.view_line) = 0

C11_Witness ==
    /\ HorizontalCall
    /\ Len(layout.lines) = 3
    /\ prev.view_line = Some(3)
    /\ call.direction = 1
    /\ cursor.view_line = Some(2)

\* C12: moving right from a non-final line with column + direction at or past
\* the line's slot count lands on (line + 1, 0) with the source byte the layout
\* gives for that position.
C12_CrossesToNextLine ==
    (/\ HorizontalCall
     /\ call.direction > 0
     /\ PrevLine < LastLine
     /\ PrevCol + call.direction >= SlotsOfLine(PrevLine)) =>
        cursor = ViewPosition(Some(PrevLine + 1), Some(0),
                              view_position_to_source_byte(layout, PrevLine + 1, 0))

C12_Witness ==
    /\ HorizontalCall
    /\ call.direction = 1
    /\ Len(layout.lines) = 3
    /\ prev.view_line = Some(0)
    /\ prev.column = Some(2)
    /\ SlotsOfLine(0) = 3
    /\ cursor = ViewPosition(Some(1), Some(0), Some(3))

\* C13: moving left from column 0 of a non-first line lands on the previous line
\* at column = its slot count, with the source byte the layout gives there,
\* whatever the magnitude of direction.
C13_CrossesToPreviousLine ==
    (/\ HorizontalCall
     /\ call.direction < 0
     /\ PrevCol = 0
     /\ PrevLine >= 1
     /\ PrevLine <= LastLine) =>
        cursor = ViewPosition(Some(PrevLine - 1), Some(SlotsOfLine(PrevLine - 1)),
                   view_position_to_source_byte(layout, PrevLine - 1, SlotsOfLine(PrevLine - 1)))

C13_Witness ==
    /\ HorizontalCall
    /\ call.direction = 0 - 2
    /\ Len(layout.lines) = 3
    /\ prev.view_line = Some(1)
    /\ prev.column = Some(0)
    /\ cursor.view_line = Some(0)
    /\ cursor.column = Some(3)

\* C14: when neither crossing applies, the result stays on the clamped current
\* line with column = min(max(0, current_col + direction), slot count of the line).
CrossesRight ==
    /\ call.direction > 0
    /\ Max(PrevCol + call.direction, 0) >= SlotsOfLine(ClampedLine)
    /\ ClampedLine + 1 < Len(layout.lines)

CrossesLeft ==
    /\ call.direction < 0
    /\ PrevCol = 0
    /\ ClampedLine > 0

C14_StaysOnLine ==
    (HorizontalCall /\ ~CrossesRight /\ ~CrossesLeft) =>
        /\ cursor.view_line = Some(ClampedLine)
        /\ cursor.column =
             Some(Min(Max(0, PrevCol + call.direction), SlotsOfLine(ClampedLine)))

C14_Witness ==
    /\ HorizontalCall
    /\ Len(layout.lines) = 3
    /\ prev.view_line = Some(2)
    /\ prev.column = Some(3)
    /\ call.direction = 2
    /\ cursor.view_line = Some(2)
    /\ cursor.column = Some(1)

\* C15: move_line_start gives column Some(0) whatever the input column, on the
\* input line clamped to [0, lines.len()-1] (the upper end saturating at 0).
C15_LineStart ==
    (call.op = "move_line_start" /\ prev.view_line # None) =>
        /\ cursor.column = Some(0)
        /\ cursor.view_line = Some(ClampedLine)

C15_Witness ==
    /\ call.op = "move_line_start"
    /\ Len(layout.lines) = 3
    /\ prev.view_line = Some(3)
    /\ prev.column = Some(2)
    /\ cursor.view_line = Some(2)
    /\ cursor.column = Some(0)

\* C16: move_line_end gives column = the slot count of the line it resolves to
\* (the input line clamped to [0, lines.len()-1]), the position after the last
\* slot, whatever the input column; 0 when the layout has no line.
C16_LineEnd ==
    (call.op = "move_line_end" /\ prev.view_line # None) =>
        /\ cursor.view_line = Some(ClampedLine)
        /\ cursor.column =
             Some(IF Len(layout.lines) >= 1
                  THEN Len(layout.lines[ClampedLine + 1].char_mappings)
                  ELSE 0)

C16_Witness ==
    /\ call.op = "move_line_end"
    /\ Len(layout.lines) = 3
    /\ prev.view_line = Some(0)
    /\ prev.column = Some(0)
    /\ Len(layout.lines[1].char_mappings) = 3
    /\ cursor.view_line = Some(0)
    /\ cursor.column = Some(3)

\* C17: move_page returns move_vertical(layout, cursor, cursor.column,
\* page * direction) with page = max(0, visible_line_count - 1); with a visible
\* line count of 0 or 1 the line only changes by clamping into the layout.
C17_PageIsVertical ==
    call.op = "move_page" =>
        /\ cursor = move_vertical(layout, prev, prev.column,
                      Max(0, visible_line_count(viewport) - 1) * call.direction)
        /\ (visible_line_count(viewport) <= 1 /\ prev.view_line # None) =>
               cursor.view_line = Some(ClampedLine)

C17_Witness ==
    /\ call.op = "move_page"
    /\ visible_line_count(viewport) = 2
    /\ call.direction = 1
    /\ Len(layout.lines) = 3
    /\ prev.view_line = Some(0)
    /\ prev.column = Some(3)
    /\ cursor.view_line = Some(1)
    /\ cursor.column = Some(3)

(***************************************************************************)
(* Properties of scroll_view and of the mapping functions.                 *)
(***************************************************************************)
MaxTop == max_top_line(layout, visible_line_count(viewport))

\* C18: scroll_view sets top_view_line to
\* clamp(old top_view_line + line_offset, 0, max_top), so after any scroll_view
\* calls 0 <= top_view_line <= max_top.
C18_ScrollClamped ==
    /\ call.op = "scroll_view" =>
         viewport.top_view_line =
            Min(Max(Unwrap(prev_viewport).top_view_line + call.direction, 0), MaxTop)
    /\ prev_viewport # None =>
         (0 <= viewport.top_view_line /\ viewport.top_view_line <= MaxTop)

C18_Witness ==
    /\ call.op = "scroll_view"
    /\ Len(layout.lines) = 3
    /\ visible_line_count(viewport) = 2
    /\ Unwrap(prev_viewport).top_view_line = 3
    /\ call.direction = 0 - 1
    /\ viewport.top_view_line = 1

\* The slots of the layout mapped to a byte.
SlotsMappedTo(b) ==
    { <<ln, col>> \in (0..LastLine) \X (0..MaxCol) :
        /\ col < SlotsOfLine(ln)
        /\ layout.lines[ln + 1].char_mappings[col + 1] = Some(b) }

\* C19: for a byte b that exactly one slot of the layout maps to,
\* view_pos_to_source(layout, source_to_view_pos(layout, b, None)) = Some(b).
C19_RoundTrip ==
    (/\ call.op = "round_trip"
     /\ call.preferred_col = None
     /\ Cardinality(SlotsMappedTo(call.direction)) = 1) =>
        resolved = Some(call.direction)

C19_Witness ==
    /\ call.op = "round_trip"
    /\ call.preferred_col = None
    /\ call.direction = 2
    /\ layout = WrappedLayout
    /\ cursor = ViewPosition(Some(1), Some(1), Some(2))
    /\ resolved = Some(2)

\* C20: view_range_to_buffer_range is Some exactly when both endpoints carry a
\* source_byte; the range is min(s, e)..max(s, e), so start <= end and swapping
\* the endpoints gives the same result.
C20_BufferRange ==
    call.op = "view_range_to_buffer_range" =>
        /\ resolved # None <=> (prev.source_byte # None /\ cursor.source_byte # None)
        /\ resolved # None =>
             /\ Unwrap(resolved).start <= Unwrap(resolved).end
             /\ {Unwrap(resolved).start, Unwrap(resolved).end} =
                  {Unwrap(prev.source_byte), Unwrap(cursor.source_byte)}
        /\ resolved = view_range_to_buffer_range(layout, cursor, prev)

C20_Witness ==
    /\ call.op = "view_range_to_buffer_range"
    /\ prev.source_byte = Some(3)
    /\ cursor.source_byte = Some(1)
    /\ resolved = Some(Range(1, 3))

(***************************************************************************)
(* Further properties of the differ, of move_vertical, of scroll_view and  *)
(* of sequences of horizontal moves.                                       *)
(***************************************************************************)
\* C25: when the leaf sequences differ, prefix + suffix <= min(len(before),
\* len(after)), so the changed span is a well-formed slice of after and
\* 0 <= byte_range.start <= byte_range.end <= total bytes of after.
C25_WindowsDoNotOverlap ==
    locals # None =>
        /\ Unwrap(locals).prefix + Unwrap(locals).suffix
             <= Min(Len(BeforeLeaves), Len(AfterLeaves))
        /\ Unwrap(locals).prefix <= Len(AfterLeaves) - Unwrap(locals).suffix
        /\ 0 <= Result.byte_range.start
        /\ Result.byte_range.start <= Result.byte_range.end
        /\ Result.byte_range.end <= sum_bytes(AfterLeaves)

\* Both loops advance over a run of equal leaves and the bound stops the second.
C25_Witness ==
    /\ locals # None
    /\ Len(BeforeLeaves) = 2
    /\ Len(AfterLeaves) = 3
    /\ \A i \in 1..3 : AfterLeaves[i] = BeforeLeaves[1]
    /\ BeforeLeaves[2] = BeforeLeaves[1]
    /\ Unwrap(locals).prefix = 2
    /\ Unwrap(locals).suffix = 0

\* C26: move_vertical returns column = preferred_col when supplied, else the
\* cursor's column (0 when unresolved); the column is not limited to the length
\* of the destination line.
C26_VerticalColumn ==
    (call.op = "move_vertical" /\ prev.view_line # None) =>
        cursor.column =
            Some(IF call.preferred_col # None THEN Unwrap(call.preferred_col) ELSE PrevCol)

\* A returned column past the end of the returned line.
C26_Witness ==
    /\ call.op = "move_vertical"
    /\ call.preferred_col = None
    /\ call.direction = 1
    /\ Len(layout.lines) = 3
    /\ prev.view_line = Some(0)
    /\ prev.column = Some(3)
    /\ cursor.view_line = Some(1)
    /\ cursor.column = Some(3)
    /\ SlotsOfLine(1) = 1

\* C27: scroll_view sets anchor_byte to the source byte of the new top line when
\* the layout resolves one and leaves it unchanged otherwise; width is unchanged.
C27_ScrollAnchor ==
    call.op = "scroll_view" =>
        LET byte == get_source_byte_for_line(layout, viewport.top_view_line)
            old == Unwrap(prev_viewport)
        IN /\ byte # None => viewport.anchor_byte = Unwrap(byte)
           /\ byte = None => viewport.anchor_byte = old.anchor_byte
           /\ viewport.width = old.width

C27_Witness ==
    /\ call.op = "scroll_view"
    /\ Len(layout.lines) = 3
    /\ layout # WrappedLayout
    /\ Unwrap(prev_viewport).top_view_line = 0
    /\ Unwrap(prev_viewport).anchor_byte = 7
    /\ viewport.top_view_line = 1
    /\ viewport.anchor_byte = 3
    /\ viewport.width = 80

\* The leaves of a tree in reading order.
RECURSIVE Fringe(_)
Fringe(t) ==
    IF t.kind = "Internal" THEN Fringe(t.left) \o Fringe(t.right)
    ELSE << [location |-> t.location, offset |-> t.offset, bytes |-> t.bytes,
             line_feed_cnt |-> t.line_feed_cnt] >>

\* C28: the result of diff_piece_trees depends only on the two leaf sequences:
\* trees of different shape over one leaf sequence diff as equal, and the result
\* is the one the balanced trees over the same leaf sequences give.
C28_ShapeIndependent ==
    diff # None =>
        /\ Fringe(before) = Fringe(after) => Result.equal
        /\ Result = diff_piece_trees(build(Fringe(before)), build(Fringe(after)))

C28_Witness ==
    /\ diff # None
    /\ Len(Fringe(before)) = 3
    /\ Fringe(before) = Fringe(after)
    /\ before # after
    /\ before.left.kind = "Leaf"
    /\ after.left.kind = "Internal"
    /\ before.left_bytes # after.left_bytes
    /\ before.lf_left # after.lf_left
    /\ Result.equal

\* C29: on a non-empty layout, after move_horizontal, move_line_start or
\* move_line_end from a cursor with a resolved view_line, the cursor has
\* view_line < lines.len() and column <= the slot count of that line.
C29_CursorInsideLayout ==
    (/\ call.op \in {"move_horizontal", "move_line_start", "move_line_end"}
     /\ prev.view_line # None
     /\ Len(layout.lines) >= 1) =>
        /\ cursor.view_line # None
        /\ cursor.column # None
        /\ Unwrap(cursor.view_line) < Len(layout.lines)
        /\ Unwrap(cursor.column) <= SlotsOfLine(Unwrap(cursor.view_line))

\* A cursor past the last line and past the end of it, brought inside the layout.
C29_Witness ==
    /\ call.op = "move_horizontal"
    /\ call.direction = 0 - 1
    /\ Len(layout.lines) = 3
    /\ prev.view_line = Some(3)
    /\ prev.column = Some(3)
    /\ cursor.view_line = Some(2)
    /\ cursor.column = Some(1)

(***************************************************************************)
(* Properties of Selection.                                                *)
(***************************************************************************)
Given == Unwrap(sel_given)

\* C21: normalized returns the same two endpoints, swapped exactly when
\* start > end under ViewPosition's ordering; the result has start <= end,
\* normalizing it again changes nothing, and is_empty() is unchanged.
C21_Normalized ==
    sel_given # None =>
        /\ view_position_lt(Given.end, Given.start) =>
               selection = Selection(Given.end, Given.start)
        /\ ~view_position_lt(Given.end, Given.start) => selection = Given
        /\ selection.start = selection.end \/ view_position_lt(selection.start, selection.end)
        /\ normalized(selection) = selection
        /\ is_empty(selection) = is_empty(Given)

C21_Witness ==
    /\ sel_given # None
    /\ Given.start = ViewPosition(Some(1), Some(0), None)
    /\ Given.end = ViewPosition(Some(0), Some(1), Some(0))
    /\ selection = Selection(Given.end, Given.start)

(***************************************************************************)
(* Properties of goto-line.                                                *)
(***************************************************************************)
Called == Unwrap(goto_call)
ParsedInput == parse_usize(trim(Called.input))

\* The state handle_goto_line reached, against C22's statement for a call in
\* exact mode with a 1-based input k >= 1 on a buffer of n lines.
GotoExactOutcome ==
    LET k == Unwrap(ParsedInput)
        n == Unwrap(Called.before.line_count)
    IN /\ Called.returned = "Ok"
       /\ editor.position =
            source_to_view_pos(layout,
                line_col_to_position(Called.before.buffer, Min(k - 1, n - 1)), None)
       /\ editor.status_message =
            Some(IF k > n
                 THEN <<"Line ", k, " doesn't exist, jumped to line ", n>>
                 ELSE <<"Jumped to line ", k>>)

GotoExactCall ==
    /\ goto_call # None
    /\ Called.before.line_count # None
    /\ ParsedInput # None
    /\ ParsedInput # Some(0)

\* C22: in exact mode (line_count() = Some(n)) a 1-based input k >= 1 is never an
\* error: the handler returns Ok, the cursor is moved to the view position of the
\* column-0 byte of 0-based line min(k-1, n-1), and the status message is "Line k
\* doesn't exist, jumped to line n" exactly when k > n and "Jumped to line k"
\* otherwise.
C22_GotoExact == GotoExactCall => GotoExactOutcome

C22_Witness ==
    /\ goto_call # None
    /\ Called.input = <<"2", "2">>
    /\ Called.before.buffer = <<2, 0, 1>>
    /\ Called.before.line_count = Some(3)
    /\ Called.before.position = ViewPosition(Some(0), Some(1), Some(1))
    /\ Called.returned = "Ok"
    /\ editor.position = ViewPosition(Some(2), Some(0), Some(4))
    /\ editor.status_message = Some(<<"Line ", 22, " doesn't exist, jumped to line ", 3>>)

\* C23: an input that does not parse as a positive integer (non-numeric text, or
\* 0) only sets a status message: no MoveCursor event is appended, position,
\* anchor and sticky column are unchanged, no position-history entry is recorded,
\* and the handler returns Ok.
C23_GotoRejected ==
    (goto_call # None /\ (ParsedInput = None \/ ParsedInput = Some(0))) =>
        /\ Called.returned = "Ok"
        /\ editor.event_log = Called.before.event_log
        /\ editor.position = Called.before.position
        /\ editor.anchor = Called.before.anchor
        /\ editor.sticky_column = Called.before.sticky_column
        /\ editor.position_history = Called.before.position_history
        /\ editor.status_message # None
        /\ editor = [Called.before EXCEPT !.status_message = editor.status_message]

C23_Witness ==
    /\ goto_call # None
    /\ Called.input = <<" ", "0">>
    /\ Called.before.event_log # <<>>
    /\ Called.before.position_history # <<>>
    /\ Called.before.position = ViewPosition(Some(2), Some(0), Some(4))
    /\ Called.returned = "Ok"
    /\ editor.position = ViewPosition(Some(2), Some(0), Some(4))
    /\ editor.event_log = Called.before.event_log
    /\ editor.position_history = Called.before.position_history
    /\ editor.status_message = Some(<<"Line number must be positive">>)

(***************************************************************************)
(* Properties of the file-open dialog.                                     *)
(***************************************************************************)
\* C24: while the dialog holds n >= 1 entries, selected_index stays within
\* [0, n-1] under select_next, select_prev, select_first, select_last, page_up
\* and page_down; select_next at the last entry and select_prev at the first
\* leave selected_index unchanged.
C24_SelectionInRange ==
    file_open # None =>
        /\ Len(FileState.entries) >= 1 =>
             (0 <= FileState.selected_index
                /\ FileState.selected_index <= Len(FileState.entries) - 1)
        /\ (/\ file_call.op = "select_next"
            /\ FileState.active_section = "Files"
            /\ Len(FileState.entries) >= 1
            /\ file_call.selected_index = Len(FileState.entries) - 1) =>
               FileState.selected_index = file_call.selected_index
        /\ (/\ file_call.op = "select_prev"
            /\ FileState.active_section = "Files"
            /\ Len(FileState.entries) >= 1
            /\ file_call.selected_index = 0) =>
               FileState.selected_index = 0

C24_Witness ==
    /\ file_open # None
    /\ file_call.op = "select_next"
    /\ FileState.active_section = "Files"
    /\ file_call.selected_index = 1
    /\ Len(FileState.entries) = 2
    /\ FileState.selected_index = 1

\* C30: in every reachable state of FileOpenState scroll_offset <= entries.len(),
\* so visible_entries never takes a slice whose start exceeds its end.
C30_ScrollWithinEntries ==
    file_open # None =>
        /\ FileState.scroll_offset <= Len(FileState.entries)
        /\ \A max_rows \in VisibleRows : visible_entries(FileState, max_rows) # "panic"

====
